---- MODULE Spec2Model ----
(***************************************************************************)
(* The atom store (libatomspace), the attention economy (libplan9cog/ecan) *)
(* and the inference engine (libpln) of cogplan9, as a state machine.      *)
(*                                                                         *)
(* An Atom* is modelled by the id the atom was allocated with (ids are     *)
(* never reused, so the two are in bijection); 0 models nil.  A pointer    *)
(* to an atom that has been free()d is a dangling pointer: heap[p].freed.  *)
(* Allocation is assumed to succeed (mallocz never returns nil).           *)
(***************************************************************************)
EXTENDS Integers, Sequences, FiniteSets, TLC

VARIABLES
    nextatomid,     \* static ulong nextatomid                (atomspace.c:10)
    globalhash,     \* static AtomHash *globalhash: bucket -> chain of ids
    atoms,          \* store -> as->atoms[0 .. as->natoms-1], 0 is a nil slot
    heap,           \* pointer -> struct Atom (with a freed mark)
    ecan,           \* the EcanNetwork over store 1
    plnglobalstats, \* static PlnStats plnglobalstats            (pln.c:184)
    call,           \* locals of the plnforward / plnbackward call in progress
    file,           \* the text written by the last atomspaceexport
    last,           \* the last operation, its arguments and what it returned
    created,        \* history: <<id, store>> of every atom allocated, in order
    deleted,        \* history: ids for which atomdelete returned 0
    uaf,            \* history: some operation read a field of a freed atom
    locks,          \* store -> the thread that holds the Lock of the AtomSpace, 0 if free
    threads,        \* thread -> position and locals of the operation it is inside
    ure             \* the UreChainer: maxiter, complexity, and the rules of ure->pln

vars == <<nextatomid, globalhash, atoms, heap, ecan, plnglobalstats, call,
          file, last, created, deleted, uaf, locks, threads, ure>>

world == <<nextatomid, globalhash, atoms, heap>>

-----------------------------------------------------------------------------
(* Bounds of the model *)

MaxAtoms == 3       \* atoms the clients allocate in one run
MaxSti == 2         \* |sti| the clients drive an atom to
FocusSmall == 2     \* a focus size below the number of atoms
MaxSteps == 2       \* largest maxsteps given to plnforward / plnbackward
MaxSerAtoms == 2    \* atoms of a store that is exported

(* Program constants *)

HASH_SIZE == 1024
ConceptNode == 3
InheritanceLink == 6
ImplicationLink == 8
ListLink == 10
DefaultFocus == 20

NilName == "<nil>"              \* char *name == nil
Stores == {1, 2}                \* two AtomSpace instances of the process
ImportStore == 3                \* the AtomSpace atomspaceimport returns

-----------------------------------------------------------------------------
(* Small helpers *)

Min(a, b) == IF a < b THEN a ELSE b

Range(s) == {s[i] : i \in DOMAIN s}

RECURSIVE SeqSum(_)
SeqSum(s) == IF s = <<>> THEN 0 ELSE Head(s) + SeqSum(Tail(s))

\* The world as one value, so that operations compose as functions.
World == [nextatomid |-> nextatomid, globalhash |-> globalhash,
          atoms |-> atoms, heap |-> heap]

SetWorld(w) ==
    /\ nextatomid' = w.nextatomid
    /\ globalhash' = w.globalhash
    /\ atoms' = w.atoms
    /\ heap' = w.heap

-----------------------------------------------------------------------------
(* The id index: atomspace.c:12-138 *)

hashid(id) == id % HASH_SIZE

\* globalhash maps each non-empty bucket to its chain (the ids of its
\* entries, head first); every other bucket of the HASH_SIZE is nil.
Chain(h, b) == IF b \in DOMAIN h THEN h[b] ELSE <<>>

SetChain(h, b, c) ==
    IF c = <<>>
    THEN [x \in DOMAIN h \ {b} |-> h[x]]
    ELSE [x \in DOMAIN h \cup {b} |-> IF x = b THEN c ELSE h[x]]

hashinit == [b \in {} |-> <<>>]

\* e->next = h->buckets[bucket]; h->buckets[bucket] = e
hashinsert(h, id) == SetChain(h, hashid(id), <<id>> \o Chain(h, hashid(id)))

\* first entry of the chain with e->id == id; e->atom, or nil
hashfind(h, id) ==
    IF \E k \in DOMAIN Chain(h, hashid(id)) : Chain(h, hashid(id))[k] = id
    THEN id ELSE 0

RECURSIVE RemoveFirst(_, _)
RemoveFirst(s, x) ==
    IF s = <<>> THEN <<>>
    ELSE IF Head(s) = x THEN Tail(s)
    ELSE <<Head(s)>> \o RemoveFirst(Tail(s), x)

hashremoveNot(h, id) == h

hashremove(h, id) == SetChain(h, hashid(id), RemoveFirst(Chain(h, hashid(id)), id))

-----------------------------------------------------------------------------
(* Atoms: atomspace.h:29-52, atomspace.c:191-290 *)

\* A float in [0,1] is modelled on a binary grid of TvOne steps (a float's
\* mantissa, at small scale): strength 0.5 is TvOne \div 2.
TvOne == 1024

DefaultTv == [strength |-> TvOne \div 2, confidence |-> 0, count |-> 0]
DefaultAv == [sti |-> 0, lti |-> 0, vlti |-> 0]

NewAtom(id, type, name, outgoing) ==
    [id |-> id, type |-> type, name |-> name, outgoing |-> outgoing,
     tv |-> DefaultTv, av |-> DefaultAv, freed |-> FALSE]

Live(w, p) == p \in DOMAIN w.heap /\ ~w.heap[p].freed

\* the non-nil entries of as->atoms, in array order
LiveSeq(w, s) == SelectSeq(w.atoms[s], LAMBDA p : p # 0)

LiveSet(w, s) == Range(w.atoms[s]) \ {0}

atomallocReuse(w, s) ==
    LET id == Len(w.atoms[s]) + 1
    IN  [nextatomid |-> w.nextatomid + 1,
         globalhash |-> hashinsert(w.globalhash, id),
         atoms |-> [w.atoms EXCEPT ![s] = Append(@, id)],
         heap |-> (id :> NewAtom(id, 0, NilName, <<>>)) @@ w.heap]

\* a->id = nextatomid++; as->atoms[as->natoms++] = a; hashinsert(globalhash, a)
atomalloc(w, s) ==
    LET id == w.nextatomid
    IN  [nextatomid |-> w.nextatomid + 1,
         globalhash |-> hashinsert(w.globalhash, id),
         atoms |-> [w.atoms EXCEPT ![s] = Append(@, id)],
         heap |-> w.heap @@ (id :> NewAtom(id, 0, NilName, <<>>))]

\* The atom the last atomalloc of store s returned.
Newest(w, s) == w.atoms[s][Len(w.atoms[s])]

atomcreate(w, s, type, name) ==
    LET w1 == atomalloc(w, s)
        a == Newest(w1, s)
    IN  [w1 EXCEPT !.heap[a] = NewAtom(@.id, type, name, <<>>)]

linkcreate(w, s, type, outgoing) ==
    LET w1 == atomalloc(w, s)
        a == Newest(w1, s)
    IN  [w1 EXCEPT !.heap[a] = NewAtom(@.id, type, NilName, outgoing)]

\* atomfind: the index first, then the linear scan of as->atoms
atomfindNoIndex(w, s, id) ==
    IF \E i \in DOMAIN w.atoms[s] :
            w.atoms[s][i] # 0 /\ w.heap[w.atoms[s][i]].id = id
    THEN LET i == CHOOSE i \in DOMAIN w.atoms[s] :
                    /\ w.atoms[s][i] # 0 /\ w.heap[w.atoms[s][i]].id = id
                    /\ \A k \in 1..(i-1) :
                          ~(w.atoms[s][k] # 0 /\ w.heap[w.atoms[s][k]].id = id)
         IN  w.atoms[s][i]
    ELSE 0

atomfind(w, s, id) ==
    IF hashfind(w.globalhash, id) # 0
    THEN hashfind(w.globalhash, id)
    ELSE atomfindNoIndex(w, s, id)

\* index of the first slot of as->atoms holding the atom with this id, or 0
SlotOf(w, s, id) ==
    IF \E i \in DOMAIN w.atoms[s] :
            w.atoms[s][i] # 0 /\ w.heap[w.atoms[s][i]].id = id
    THEN CHOOSE i \in DOMAIN w.atoms[s] :
            /\ w.atoms[s][i] # 0 /\ w.heap[w.atoms[s][i]].id = id
            /\ \A k \in 1..(i-1) :
                  ~(w.atoms[s][k] # 0 /\ w.heap[w.atoms[s][k]].id = id)
    ELSE 0

\* atomdelete: hashremove first, whatever the store; then free the atom and
\* nil its slot if the scan of as->atoms finds it.  ret is 0 or -1.
atomdelete(w, s, id) ==
    LET h == hashremove(w.globalhash, id)
        i == SlotOf(w, s, id)
    IN  IF i # 0
        THEN [w |-> [w EXCEPT !.globalhash = h,
                              !.atoms[s][i] = 0,
                              !.heap[w.atoms[s][i]].freed = TRUE],
              ret |-> 0]
        ELSE [w |-> [w EXCEPT !.globalhash = h], ret |-> -1]

-----------------------------------------------------------------------------
(* Initial state: atomspacecreate() twice, ecaninit and plninit on store 1 *)

NoCall == [pc |-> "idle"]

\* ureinit: no rule (plninit), maxiter 100, complexity 1.0, in tenths
DefaultMaxIter == 100

ureinit == [maxiter |-> DefaultMaxIter, complexity |-> 10, rules |-> <<>>]

Threads == {1, 2}

\* the Lock of the EcanNetwork, beside the Locks of the stores
EcanLock == 0

NoLocks == [s \in Stores \cup {EcanLock} |-> 0]

\* no thread is inside an operation
\* (n counts the operations the thread has entered, given lists the
\* <<atom, sti>> it has allocated)
NoThreads == [t \in Threads |-> [pc |-> "idle", n |-> 0, given |-> <<>>]]

ZeroStats == [inferences |-> 0, forward |-> 0, backward |-> 0,
              rulematch |-> 0, tvcompute |-> 0]

ecaninit(focus) == [attentionalfocus |-> focus, focusatoms |-> <<>>, nfocus |-> 0]

InitWorld ==
    /\ nextatomid = 1
    /\ globalhash = hashinit
    /\ atoms = [s \in Stores |-> <<>>]
    /\ heap = <<>>

InitRest ==
    /\ plnglobalstats = ZeroStats
    /\ call = NoCall
    /\ locks = NoLocks
    /\ threads = NoThreads
    /\ ure = ureinit
    /\ file = <<>>
    /\ last = [op |-> "init", ret |-> 0]
    /\ created = <<>>
    /\ deleted = {}
    /\ uaf = FALSE

Init ==
    /\ InitWorld
    /\ InitRest
    /\ ecan = ecaninit(DefaultFocus)

-----------------------------------------------------------------------------
(* Client operations on the stores *)

rest == <<ecan, plnglobalstats, call, file>>

\* sequences of at most n pointers to live atoms of store s
Outgoings(s, n) ==
    UNION {[1..k -> LiveSet(World, s)] : k \in 0..n}

AtomCreate(s, type, name) ==
    /\ LET w == atomcreate(World, s, type, name)
           a == Newest(w, s)
       IN  /\ SetWorld(w)
           /\ created' = Append(created, <<w.heap[a].id, s>>)
           /\ last' = [op |-> "atomcreate", ret |-> a]
    /\ UNCHANGED <<ure, locks, threads, rest, deleted, uaf>>

LinkCreate(s, type, outgoing) ==
    /\ LET w == linkcreate(World, s, type, outgoing)
           a == Newest(w, s)
       IN  /\ SetWorld(w)
           /\ created' = Append(created, <<w.heap[a].id, s>>)
           /\ last' = [op |-> "linkcreate", ret |-> a]
    /\ UNCHANGED <<ure, locks, threads, rest, deleted, uaf>>

AtomDelete(s, id) ==
    /\ LET r == atomdelete(World, s, id)
       IN  /\ SetWorld(r.w)
           /\ deleted' = IF r.ret = 0 THEN deleted \cup {id} ELSE deleted
           /\ last' = [op |-> "atomdelete", ret |-> r.ret]
    /\ UNCHANGED <<ure, locks, threads, rest, created, uaf>>

\* ids a client can name: every id handed out so far, and one never handed out
Ids == 1..nextatomid

StoreNext(S) ==
    \/ nextatomid <= MaxAtoms /\ \E s \in S : AtomCreate(s, ConceptNode, "A")
    \/ /\ nextatomid <= MaxAtoms
       /\ \E s \in S : \E o \in Outgoings(s, 1) : LinkCreate(s, InheritanceLink, o)
    \/ \E s \in S : \E id \in Ids : AtomDelete(s, id)

\* two stores in one process
Next == StoreNext(Stores)

Spec == Init /\ [][Next]_vars

\* one store
NextOne == StoreNext({1})

SpecOne == Init /\ [][NextOne]_vars

-----------------------------------------------------------------------------
(* Truth and attention values: atomspace.c:343-365 *)

atomsettruth(w, a, tv) == [w EXCEPT !.heap[a].tv = tv]

atomsetattention(w, a, av) == [w EXCEPT !.heap[a].av = av]

AtomSetTruth(a, tv) ==
    /\ SetWorld(atomsettruth(World, a, tv))
    /\ last' = [op |-> "atomsettruth", ret |-> 0]
    /\ UNCHANGED <<ure, locks, threads, rest, created, deleted, uaf>>

AtomSetAttention(a, av) ==
    /\ SetWorld(atomsetattention(World, a, av))
    /\ last' = [op |-> "atomsetattention", ret |-> 0]
    /\ UNCHANGED <<ure, locks, threads, rest, created, deleted, uaf>>

-----------------------------------------------------------------------------
(* Serialization: serialize.c:12-252 *)
(* A line of text is the sequence of the items snprint wrote, separated by *)
(* single blanks; an item is a string or a number.  Names hold no blank    *)
(* and no quote.                                                           *)

Str(s) == [k |-> "s", v |-> s]
Num(n) == [k |-> "n", v |-> n]

\* "%f" prints a float with 6 decimals; at the model's scale a decimal has
\* PrintOne steps in [0,1].  atof reads it back to the nearest grid value.
PrintOne == 100

fmtf(x) == Num((x * PrintOne * 2 + TvOne) \div (2 * TvOne))

atofIdentity(f) == IF f.k = "n" THEN f.v ELSE 0

atof(f) == IF f.k = "n" THEN (f.v * TvOne * 2 + PrintOne) \div (2 * PrintOne) ELSE 0

atoi(f) == IF f.k = "n" THEN f.v ELSE 0

\* what a->outgoing[j] ? a->outgoing[j]->id : 0 reads; g[p] is what the
\* freed memory of a deleted atom p holds
OutId(w, g, p) ==
    IF p = 0 THEN 0
    ELSE IF Live(w, p) THEN w.heap[p].id
    ELSE g[p]

Dangling(w, s) ==
    {p \in UNION {Range(w.heap[a].outgoing) : a \in LiveSet(w, s)} :
        p # 0 /\ ~Live(w, p)}

NodeLine(a) ==
    <<Str("NODE"), Num(a.id), Num(a.type),
      Str(IF a.name = NilName THEN "_" ELSE a.name),
      fmtf(a.tv.strength), fmtf(a.tv.confidence), Num(a.tv.count),
      Num(a.av.sti), Num(a.av.lti), Num(a.av.vlti)>>

LinkLine(w, g, a) ==
    <<Str("LINK"), Num(a.id), Num(a.type), Num(Len(a.outgoing))>>
    \o [j \in DOMAIN a.outgoing |-> Num(OutId(w, g, a.outgoing[j]))]
    \o <<fmtf(a.tv.strength), fmtf(a.tv.confidence), Num(a.tv.count),
         Num(a.av.sti), Num(a.av.lti), Num(a.av.vlti)>>

\* header, first pass (atoms without outgoing set), second pass (links), END
atomspaceexport(w, s, g) ==
    LET live == LiveSeq(w, s)
        nodes == SelectSeq(live, LAMBDA p : Len(w.heap[p].outgoing) = 0)
        links == SelectSeq(live, LAMBDA p : Len(w.heap[p].outgoing) > 0)
    IN  <<  <<Str("ATOMSPACE"), Num(Len(w.atoms[s]))>>  >>
        \o [i \in DOMAIN nodes |-> NodeLine(w.heap[nodes[i]])]
        \o [i \in DOMAIN links |-> LinkLine(w, g, w.heap[links[i]])]
        \o <<  <<Str("END")>>  >>

\* tokenize(line, fields, nelem(fields)): the non-empty items, at most 32
MaxFields == 32

tokenize(line) ==
    LET f == SelectSeq(line, LAMBDA x : ~(x.k = "s" /\ x.v = ""))
    IN  SubSeq(f, 1, Min(Len(f), MaxFields))

IsWord(f, s) == f.k = "s" /\ f.v = s

NameOf(f) == IF f.k = "s" THEN f.v ELSE ToString(f.v)

\* first entry of the id map with this old id; its atom, or nil
findbyoldid(idmap, oldid) ==
    IF \E i \in DOMAIN idmap : idmap[i][1] = oldid
    THEN idmap[CHOOSE i \in DOMAIN idmap :
                 /\ idmap[i][1] = oldid
                 /\ \A k \in 1..(i-1) : idmap[k][1] # oldid][2]
    ELSE 0

TvAt(fields, base) ==
    [strength |-> atof(fields[base]), confidence |-> atof(fields[base + 1]),
     count |-> atoi(fields[base + 2])]

AvAt(fields, base) ==
    [sti |-> atoi(fields[base]), lti |-> atoi(fields[base + 1]),
     vlti |-> atoi(fields[base + 2])]

\* one turn of the read loop on a line that is not END: st = [w, idmap]
ImportLine(st, s, line) ==
    LET fields == tokenize(line)
        nfields == Len(fields)
    IN  IF nfields < 2 THEN st
        ELSE IF IsWord(fields[1], "NODE") /\ nfields >= 10
        THEN LET w1 == atomcreate(st.w, s, atoi(fields[3]),
                          IF IsWord(fields[4], "_") THEN NilName ELSE NameOf(fields[4]))
                 a == Newest(w1, s)
                 w2 == atomsettruth(w1, a, TvAt(fields, 5))
                 w3 == atomsetattention(w2, a, AvAt(fields, 8))
             IN  [w |-> w3, idmap |-> Append(st.idmap, <<atoi(fields[2]), a>>)]
        ELSE IF IsWord(fields[1], "LINK") /\ nfields >= 4
        THEN LET nout == atoi(fields[4])
             IN  IF nfields >= 4 + nout + 6
                 THEN LET outgoing == [i \in 1..nout |->
                                          findbyoldid(st.idmap, atoi(fields[4 + i]))]
                          w1 == linkcreate(st.w, s, atoi(fields[3]), outgoing)
                          a == Newest(w1, s)
                          w2 == atomsettruth(w1, a, TvAt(fields, 5 + nout))
                          w3 == atomsetattention(w2, a, AvAt(fields, 8 + nout))
                      IN  [w |-> w3, idmap |-> Append(st.idmap, <<atoi(fields[2]), a>>)]
                 ELSE st
        ELSE st

RECURSIVE ImportLines(_, _, _)
ImportLines(st, s, lines) ==
    IF lines = <<>> \/ Head(lines) = <<Str("END")>> THEN st
    ELSE ImportLines(ImportLine(st, s, Head(lines)), s, Tail(lines))

HeaderOk(text) ==
    /\ text # <<>>
    /\ Len(text[1]) >= 2
    /\ IsWord(text[1][1], "ATOMSPACE")

\* the world after atomspaceimport read text into the new store s;
\* the caller gets nil (and no store is made) on a bad header
atomspaceimport(w, s, text) ==
    IF ~HeaderOk(text) THEN w
    ELSE ImportLines([w |-> [w EXCEPT !.atoms = (s :> <<>>) @@ @], idmap |-> <<>>],
                     s, Tail(text)).w

\* what freed atoms' memory may hold where their id was
Garbage(w, s) == [Dangling(w, s) -> 0..(w.nextatomid - 1)]

Export(s) ==
    /\ file = <<>>
    /\ \E g \in Garbage(World, s) : file' = atomspaceexport(World, s, g)
    /\ uaf' = (uaf \/ Dangling(World, s) # {})
    /\ last' = [op |-> "atomspaceexport", ret |-> 0]
    /\ UNCHANGED <<ure, locks, threads, world, ecan, plnglobalstats, call, created, deleted>>

Import ==
    /\ file # <<>>
    /\ ImportStore \notin DOMAIN atoms
    /\ LET w == atomspaceimport(World, ImportStore, file)
       IN  /\ SetWorld(w)
           /\ created' = created \o
                 [i \in 1..(w.nextatomid - nextatomid) |-> <<nextatomid + i - 1, ImportStore>>]
           /\ last' = [op |-> "atomspaceimport",
                       ret |-> IF ImportStore \in DOMAIN w.atoms THEN ImportStore ELSE 0]
    /\ UNCHANGED <<ure, locks, threads, ecan, plnglobalstats, call, file, deleted, uaf>>

Names == {NilName, "", "A"}

TvValues == {DefaultTv, [strength |-> 341, confidence |-> TvOne, count |-> 7]}

AvValues == {DefaultAv, [sti |-> -2, lti |-> 1, vlti |-> 0]}

\* a client builds store 1, exports it, and the text is imported
SerNext ==
    \/ /\ file = <<>>
       /\ \/ nextatomid <= MaxSerAtoms /\ \E nm \in Names : AtomCreate(1, ConceptNode, nm)
          \/ /\ nextatomid <= MaxSerAtoms
             /\ \E o \in Outgoings(1, 2) : LinkCreate(1, InheritanceLink, o)
          \/ \E id \in LiveSet(World, 1) : AtomDelete(1, id)
          \/ \E a \in LiveSet(World, 1) : \E tv \in TvValues : AtomSetTruth(a, tv)
          \/ \E a \in LiveSet(World, 1) : \E av \in AvValues : AtomSetAttention(a, av)
    \/ Export(1)
    \/ Import

SpecSer == Init /\ [][SerNext]_vars

-----------------------------------------------------------------------------
(* Attention economy: ecan.c:9-170.  The network is over store 1. *)

EcanStore == 1

\* a short: the low 16 bits, signed
Short(x) == ((x + 32768) % 65536) - 32768

Sti(w, p) == w.heap[p].av.sti

StiLessEq(x, y) == x <= y

\* the test of the bubble sort: sorted[j]->av.sti < sorted[j+1]->av.sti
StiLess(x, y) == x < y

Swap(s, j) == [s EXCEPT ![j] = s[j + 1], ![j + 1] = s[j]]

\* for(j = 0; j < nsorted - i - 1; j++): one pass, from position j (1-based)
RECURSIVE BubblePass(_, _, _, _)
BubblePass(w, s, j, lim) ==
    IF j > lim THEN s
    ELSE BubblePass(w, IF StiLess(Sti(w, s[j]), Sti(w, s[j + 1])) THEN Swap(s, j) ELSE s,
                    j + 1, lim)

\* for(i = 0; i < nsorted - 1; i++)
RECURSIVE BubbleSort(_, _, _)
BubbleSort(w, s, i) ==
    IF i >= Len(s) - 1 THEN s
    ELSE BubbleSort(w, BubblePass(w, s, 1, Len(s) - i - 1), i + 1)

\* collects the non-nil atoms, sorts them, keeps the first nfocus
ecanupdate(w, e) ==
    LET sorted == BubbleSort(w, LiveSeq(w, EcanStore), 0)
        nfocus == IF Len(sorted) < e.attentionalfocus THEN Len(sorted)
                  ELSE e.attentionalfocus
    IN  [e EXCEPT !.nfocus = nfocus, !.focusatoms = SubSeq(sorted, 1, nfocus)]

\* an allocation that keeps sti at or above 0
ecanallocateClamped(w, e, a, sti) ==
    LET w1 == atomsetattention(w, a, [w.heap[a].av EXCEPT
                                          !.sti = IF @ + sti < 0 THEN 0 ELSE Short(@ + sti)])
    IN  [w |-> w1, e |-> ecanupdate(w1, e)]

\* av.sti += sti; atomsetattention(a, av); ecanupdate(ecan): [w, e]
ecanallocate(w, e, a, sti) ==
    LET w1 == atomsetattention(w, a, [w.heap[a].av EXCEPT !.sti = Short(@ + sti)])
    IN  [w |-> w1, e |-> ecanupdate(w1, e)]

\* the live atoms of store s whose outgoing set lists a, each once, in
\* array order (atomspace.c:397-433)
atomgetincoming(w, s, a) ==
    SelectSeq(LiveSeq(w, s), LAMBDA p : a \in Range(w.heap[p].outgoing))

\* a spread that hands out av.sti / nincoming
SpreadShareNoSource(sti, nincoming) == sti \div nincoming

\* spread = av.sti / (nincoming + 1), for av.sti > 0
SpreadShare(sti, nincoming) == sti \div (nincoming + 1)

\* for(i = 0; i < nincoming; i++) ecanallocate(ecan, incoming[i], spread)
RECURSIVE SpreadTo(_, _, _)
SpreadTo(st, incoming, spread) ==
    IF incoming = <<>> THEN st
    ELSE SpreadTo(ecanallocate(st.w, st.e, Head(incoming), spread),
                  Tail(incoming), spread)

\* ecanspread(ecan, source): [w, e]
ecanspread(w, e, source) ==
    LET incoming == atomgetincoming(w, EcanStore, source)
    IN  IF Sti(w, source) <= 0 \/ incoming = <<>>
        THEN [w |-> w, e |-> e]
        ELSE SpreadTo([w |-> w, e |-> e], incoming,
                      SpreadShare(Sti(w, source), Len(incoming)))

EcanUpdate ==
    /\ ecan' = ecanupdate(World, ecan)
    /\ last' = [op |-> "ecanupdate", ret |-> 0]
    /\ UNCHANGED <<ure, locks, threads, world, plnglobalstats, call, file, created, deleted, uaf>>

EcanAllocate(a, sti) ==
    /\ Sti(World, a) + sti \in -MaxSti..MaxSti
    /\ LET r == ecanallocate(World, ecan, a, sti)
       IN  SetWorld(r.w) /\ ecan' = r.e
    /\ last' = [op |-> "ecanallocate", ret |-> 0, a |-> a, sti |-> sti, pre |-> World]
    /\ UNCHANGED <<ure, locks, threads, plnglobalstats, call, file, created, deleted, uaf>>

EcanSpread(source) ==
    /\ \E r \in {ecanspread(World, ecan, source)} :
          /\ \A p \in LiveSet(World, EcanStore) : Sti(r.w, p) \in -MaxSti..MaxSti
          /\ SetWorld(r.w)
          /\ ecan' = r.e
    /\ last' = [op |-> "ecanspread", ret |-> 0, source |-> source, pre |-> World]
    /\ UNCHANGED <<ure, locks, threads, plnglobalstats, call, file, created, deleted, uaf>>

\* ecaninit sets attentionalfocus to 20; the field is public
\* (plan9cog.h:128) and a client may lower it before using the network
FocusSizes == {FocusSmall, DefaultFocus}

InitEcan ==
    /\ InitWorld
    /\ InitRest
    /\ \E f \in FocusSizes : ecan = ecaninit(f)

Deltas == {-1, 1}

EcanNext ==
    \/ nextatomid <= MaxAtoms /\ AtomCreate(EcanStore, ConceptNode, "A")
    \/ \E id \in LiveSet(World, EcanStore) : AtomDelete(EcanStore, id)
    \/ \E a \in LiveSet(World, EcanStore) : \E d \in Deltas : EcanAllocate(a, d)
    \/ EcanUpdate

SpecEcan == InitEcan /\ [][EcanNext]_vars

\* the same clients over a store with links, spreading attention too
SpreadNext ==
    \/ EcanNext
    \/ /\ nextatomid <= MaxAtoms
       /\ \E o \in Outgoings(EcanStore, 1) \ {<<>>} :
            LinkCreate(EcanStore, InheritanceLink, o)
    \/ \E a \in LiveSet(World, EcanStore) : EcanSpread(a)

SpecSpread == InitEcan /\ [][SpreadNext]_vars

-----------------------------------------------------------------------------
(* ecandecay: ecan.c:145-170.  rate is a float: a multiple of 1/RateOne,   *)
(* the step of a float mantissa between 1/16 and 1/8.  1.0 - rate and the  *)
(* product with sti are doubles and exact at this size.                    *)

RateOne == 134217728

\* the float nearest to the decimal num/den the caller wrote
ToFloat(r) == (r.num * RateOne * 2 + r.den) \div (2 * r.den)

DecayFactorGrow(rate) == RateOne + rate

\* 1.0 - rate
DecayFactor(rate) == RateOne - rate

\* (short)(sti * q / RateOne): the product cut toward zero, computed in
\* two halves of q to stay within 32 bits
MulTrunc(sti, q) ==
    LET m == IF sti < 0 THEN -sti ELSE sti
        qh == q \div 16384
        ql == q % 16384
        p == (m * qh + (m * ql) \div 16384) \div 8192
    IN  Short(IF sti < 0 THEN -p ELSE p)

\* the loop over as->atoms, then ecanupdate(ecan): [w, e]
ecandecay(w, e, rate) ==
    LET live == LiveSet(w, EcanStore)
        w1 == [w EXCEPT !.heap = [p \in DOMAIN w.heap |->
                  IF p \in live
                  THEN [w.heap[p] EXCEPT !.av.sti = MulTrunc(@, DecayFactor(rate))]
                  ELSE w.heap[p]]]
    IN  [w |-> w1, e |-> ecanupdate(w1, e)]

\* ecandecay(ecan, r) as the caller writes it; r becomes a float at the call
EcanDecay(r) ==
    /\ \E st \in {ecandecay(World, ecan, ToFloat(r))} :
          /\ SetWorld(st.w)
          /\ ecan' = st.e
    /\ last' = [op |-> "ecandecay", ret |-> 0, rate |-> r, pre |-> World]
    /\ UNCHANGED <<ure, locks, threads, plnglobalstats, call, file, created, deleted, uaf>>

\* the rates 0, 0.1, 0.5 and 1
DecayRates ==
    {[num |-> 0, den |-> 1], [num |-> 1, den |-> 10], [num |-> 1, den |-> 2],
     [num |-> 1, den |-> 1]}

StiValues == {-100, -3, 0, 1, 100}

\* two atoms that hold attention, or one, the other deleted
DecayWorld(s1, s2, del) ==
    LET w0 == [nextatomid |-> 1, globalhash |-> hashinit,
               atoms |-> [s \in Stores |-> <<>>], heap |-> <<>>]
        w1 == atomcreate(w0, EcanStore, ConceptNode, "A")
        w2 == atomcreate(w1, EcanStore, ConceptNode, "B")
        w3 == atomsetattention(w2, 1, [sti |-> s1, lti |-> 5, vlti |-> 1])
        w4 == atomsetattention(w3, 2, [sti |-> s2, lti |-> 0, vlti |-> 0])
    IN  IF del THEN atomdelete(w4, EcanStore, 2).w ELSE w4

InitDecay ==
    /\ \E s1, s2 \in StiValues : \E del \in BOOLEAN :
          /\ nextatomid = DecayWorld(s1, s2, del).nextatomid
          /\ globalhash = DecayWorld(s1, s2, del).globalhash
          /\ atoms = DecayWorld(s1, s2, del).atoms
          /\ heap = DecayWorld(s1, s2, del).heap
    /\ InitRest
    /\ \E f \in FocusSizes : ecan = ecaninit(f)

DecayNext == \E r \in DecayRates : EcanDecay(r)

SpecDecay == InitDecay /\ [][DecayNext]_vars

-----------------------------------------------------------------------------
(* Inference engine: pln.c.  pln->as is store 1. *)

PlnStore == 1

\* product of two floats of [0,1], rounded to the grid
fmul(a, b) == (a * b + TvOne \div 2) \div TvOne

plnabductionLike(ab, bc) ==
    [strength |-> fmul(fmul(ab.strength, bc.strength), (8 * TvOne) \div 10),
     confidence |-> fmul(fmul(ab.confidence, bc.confidence), (7 * TvOne) \div 10),
     count |-> ab.count + bc.count]

plndeduction(ab, bc) ==
    [strength |-> fmul(ab.strength, bc.strength),
     confidence |-> fmul(ab.confidence, bc.confidence),
     count |-> ab.count + bc.count]

\* the live atoms of the type that have an outgoing set, in array order
plnfindlinks(w, s, linktype) ==
    SelectSeq(LiveSeq(w, s),
              LAMBDA p : w.heap[p].type = linktype /\ Len(w.heap[p].outgoing) > 0)

\* *p as the code reads it: the atom, or, once p is freed, what g says its
\* memory holds now
Deref(w, p, g) == IF Live(w, p) THEN w.heap[p] ELSE g

\* a == target, or target is one of a->outgoing[0 .. noutgoing-1]
plnrelatestoAny(p, a, target) == TRUE

\* a is the atom read through pointer p
plnrelatesto(p, a, target) == p = target \/ target \in Range(a.outgoing)

\* [st, ret]: the state after plnapplydeduction(pln, ab, bc) and what it returns
plnapplydeduction(st, abp, bcp, g) ==
    LET ab == Deref(st.w, abp, g)
        bc == Deref(st.w, bcp, g)
    IN  IF Len(ab.outgoing) < 2 \/ Len(bc.outgoing) < 2 THEN [st |-> st, ret |-> 0]
        ELSE IF ab.outgoing[2] # bc.outgoing[1] THEN [st |-> st, ret |-> 0]
        ELSE LET w1 == linkcreate(st.w, PlnStore, ab.type,
                                  <<ab.outgoing[1], bc.outgoing[2]>>)
                 a == Newest(w1, PlnStore)
                 w2 == atomsettruth(w1, a, plndeduction(ab.tv, bc.tv))
             IN  [st |-> [st EXCEPT !.w = w2, !.stats.tvcompute = @ + 1],
                  ret |-> a]

HasRoomAlways(c) == TRUE

\* count < maxresults, the second half of every loop condition
HasRoom(c) == Len(c.results) < c.maxresults

\* st = [w, stats, c]: the world, plnglobalstats and the locals of the call.
\* c.over records a write to results[] at or beyond maxresults.
Push(c, x) ==
    [c EXCEPT !.results = Append(@, x),
              !.over = @ \/ Len(c.results) >= c.maxresults]

\* maxresults = maxsteps * 2; results = mallocz(...); count = 0;
\* links = plnfindlinks(pln->as, InheritanceLink, &nlinks)
plnforwardEnter(w, target, maxsteps) ==
    [pc |-> "step", op |-> "plnforward", target |-> target, maxsteps |-> maxsteps,
     maxresults |-> maxsteps * 2, results |-> <<>>, over |-> FALSE,
     links |-> plnfindlinks(w, PlnStore, InheritanceLink),
     step |-> 0, i |-> 0, j |-> 0, rounds |-> 0, iters |-> 0,
     natoms0 |-> Len(w.atoms[PlnStore]), count0 |-> 0]

\* the body of the inner loop for links[i], links[j]
InferredOnly(stats) == [stats EXCEPT !.inferences = @ + 1]

\* plnglobalstats.inferences++; plnglobalstats.rulematch++
Inferred(stats) == [stats EXCEPT !.inferences = @ + 1, !.rulematch = @ + 1]

ForwardBody(st, g) ==
    LET c == st.c
        li == c.links[c.i + 1]
        lj == c.links[c.j + 1]
    IN  IF c.i = c.j THEN st
        ELSE IF c.target # 0 /\ ~plnrelatesto(li, Deref(st.w, li, g), c.target) THEN st
        ELSE LET r == plnapplydeduction(st, li, lj, g)
             IN  IF r.ret # 0
                 THEN [r.st EXCEPT !.c = Push(@, r.ret),
                                   !.stats = Inferred(@)]
                 ELSE r.st

NoProgressNever(c) == FALSE

\* if(count == 0) break, at the end of a round; c.count0 is the count the
\* round began with
NoProgress(c) == Len(c.results) = 0

\* one test of a loop condition of plnforward and what follows it
ForwardStep(st, g) ==
    LET c == st.c
        n == Len(c.links)
        st1 == [st EXCEPT !.c.iters = @ + 1]
    IN  IF c.pc = "step"
        THEN IF c.step < c.maxsteps /\ HasRoom(c)
             THEN [st1 EXCEPT !.c.pc = "i", !.c.i = 0, !.c.rounds = @ + 1,
                              !.c.count0 = Len(c.results),
                              !.stats.forward = @ + 1]
             ELSE [st1 EXCEPT !.c.pc = "done"]
        ELSE IF c.pc = "i"
        THEN IF c.i < n /\ HasRoom(c)
             THEN [st1 EXCEPT !.c.pc = "j", !.c.j = 0]
             ELSE IF NoProgress(c)
                  THEN [st1 EXCEPT !.c.pc = "done"]
                  ELSE [st1 EXCEPT !.c.pc = "step", !.c.step = @ + 1]
        ELSE IF c.j < n /\ HasRoom(c)
             THEN [ForwardBody(st1, g) EXCEPT !.c.j = @ + 1]
             ELSE [st1 EXCEPT !.c.pc = "i", !.c.i = @ + 1]

RECURSIVE RunForward(_)
RunForward(st) ==
    IF st.c.pc = "done" THEN st
    ELSE RunForward(ForwardStep(st, NewAtom(0, 0, NilName, <<>>)))

\* plnforward(pln, target, maxsteps, &n) run to its return
plnforward(w, stats, target, maxsteps) ==
    RunForward([w |-> w, stats |-> stats, c |-> plnforwardEnter(w, target, maxsteps)])

Returned(c) ==
    [op |-> c.op, ret |-> c.results, target |-> c.target, maxsteps |-> c.maxsteps,
     links |-> c.links, natoms0 |-> c.natoms0, rounds |-> c.rounds]

NewIds(w) == [i \in 1..(w.nextatomid - nextatomid) |-> <<nextatomid + i - 1, PlnStore>>]

PlnForward(target, maxsteps) ==
    /\ call.pc = "idle"
    /\ \E st \in {plnforward(World, plnglobalstats, target, maxsteps)} :
           /\ SetWorld(st.w)
           /\ plnglobalstats' = st.stats
           /\ last' = Returned(st.c) @@ [stats0 |-> plnglobalstats, pre |-> World]
           /\ created' = created \o NewIds(st.w)
    /\ UNCHANGED <<ure, locks, threads, ecan, call, file, deleted, uaf>>

\* the store of test_pln_forward_chain: nodes A, B, C, links A->B and B->C
A0 == 1
B0 == 2
C0 == 3
L1 == 4
L2 == 5

ChainWorld(tv1, tv2) ==
    LET w0 == [nextatomid |-> 1, globalhash |-> hashinit,
               atoms |-> [s \in Stores |-> <<>>], heap |-> <<>>]
        w1 == atomcreate(w0, PlnStore, ConceptNode, "A")
        w2 == atomcreate(w1, PlnStore, ConceptNode, "B")
        w3 == atomcreate(w2, PlnStore, ConceptNode, "C")
        w4 == linkcreate(w3, PlnStore, InheritanceLink, <<A0, B0>>)
        w5 == linkcreate(w4, PlnStore, InheritanceLink, <<B0, C0>>)
    IN  atomsettruth(atomsettruth(w5, L1, tv1), L2, tv2)

ChainTvs ==
    {[strength |-> s, confidence |-> c, count |-> 10] :
        s \in {TvOne, 922}, c \in {TvOne, 819}}

InitChain(tvs) ==
    /\ \E tv1, tv2 \in tvs :
          /\ nextatomid = ChainWorld(tv1, tv2).nextatomid
          /\ globalhash = ChainWorld(tv1, tv2).globalhash
          /\ atoms = ChainWorld(tv1, tv2).atoms
          /\ heap = ChainWorld(tv1, tv2).heap
    /\ ecan = ecaninit(DefaultFocus)
    /\ plnglobalstats = ZeroStats
    /\ call = NoCall
    /\ locks = NoLocks
    /\ threads = NoThreads
    /\ ure = ureinit
    /\ file = <<>>
    /\ last = [op |-> "init", ret |-> 0]
    /\ created = [i \in 1..5 |-> <<i, PlnStore>>]
    /\ deleted = {}
    /\ uaf = FALSE

InitPln == InitChain(ChainTvs)

MaxRounds == 4      \* rounds of inference after which no further call starts

-----------------------------------------------------------------------------
(* Backward chaining: pln.c:338-405 *)

\* goal == nil returns at once; else links = plnfindlinks(.., InheritanceLink, ..)
\* (the ImplicationLink list is taken only when the first is nil, which
\* plnfindlinks returns only when it cannot allocate)
plnbackwardEnter(w, goal, maxsteps) ==
    [pc |-> IF goal = 0 THEN "done" ELSE "bstep",
     op |-> "plnbackward", target |-> goal, maxsteps |-> maxsteps,
     maxresults |-> maxsteps * 2, results |-> <<>>, over |-> FALSE,
     links |-> IF goal = 0 THEN <<>> ELSE plnfindlinks(w, PlnStore, InheritanceLink),
     step |-> 0, i |-> 0, j |-> 0, rounds |-> 0, iters |-> 0,
     natoms0 |-> Len(w.atoms[PlnStore])]

\* for(j = 0; j < nlinks && count < maxresults; j++): premises of premise
RECURSIVE BackwardInner(_, _, _, _)
BackwardInner(st, j, premise, g) ==
    IF ~(j < Len(st.c.links) /\ HasRoom(st.c)) THEN st
    ELSE LET lj == Deref(st.w, st.c.links[j + 1], g)
         IN  BackwardInner(
                 IF Len(lj.outgoing) >= 2 /\ lj.outgoing[2] = premise
                 THEN [st EXCEPT !.c = Push(@, lj.outgoing[1]),
                                 !.stats.inferences = @ + 1]
                 ELSE st,
                 j + 1, premise, g)

\* the body of the loop over links[i]
BackwardBody(st, g) ==
    LET c == st.c
        li == Deref(st.w, c.links[c.i + 1], g)
    IN  IF Len(li.outgoing) >= 2 /\ li.outgoing[2] = c.target
        THEN LET st1 == [st EXCEPT !.c = Push(@, li.outgoing[1]),
                                   !.stats.inferences = @ + 1]
             IN  IF c.step + 1 < c.maxsteps
                 THEN BackwardInner(st1, 0, li.outgoing[1], g)
                 ELSE st1
        ELSE st

\* one test of a loop condition of plnbackward and what follows it
BackwardStep(st, g) ==
    LET c == st.c
        st1 == [st EXCEPT !.c.iters = @ + 1]
    IN  IF c.pc = "bstep"
        THEN IF c.step < c.maxsteps /\ HasRoom(c)
             THEN [st1 EXCEPT !.c.pc = "bi", !.c.i = 0, !.c.rounds = @ + 1,
                              !.stats.backward = @ + 1]
             ELSE [st1 EXCEPT !.c.pc = "done"]
        ELSE IF c.i < Len(c.links) /\ HasRoom(c)
             THEN [BackwardBody(st1, g) EXCEPT !.c.i = @ + 1]
             ELSE IF Len(c.results) = 0
                  THEN [st1 EXCEPT !.c.pc = "done"]
                  ELSE [st1 EXCEPT !.c.pc = "bstep", !.c.step = @ + 1]

RECURSIVE RunBackward(_)
RunBackward(st) ==
    IF st.c.pc = "done" THEN st
    ELSE RunBackward(BackwardStep(st, NewAtom(0, 0, NilName, <<>>)))

\* plnbackward(pln, goal, maxsteps, &n) run to its return
plnbackward(w, stats, goal, maxsteps) ==
    RunBackward([w |-> w, stats |-> stats, c |-> plnbackwardEnter(w, goal, maxsteps)])

PlnBackward(goal, maxsteps) ==
    /\ call.pc = "idle"
    /\ \E st \in {plnbackward(World, plnglobalstats, goal, maxsteps)} :
           /\ plnglobalstats' = st.stats
           /\ last' = Returned(st.c) @@ [stats0 |-> plnglobalstats]
    /\ UNCHANGED <<ure, locks, threads, world, ecan, call, file, created, deleted, uaf>>

\* targets: nil, the atoms of the store
Targets == {0} \cup LiveSet(World, PlnStore)

PlnNext ==
    /\ plnglobalstats.forward + plnglobalstats.backward < MaxRounds
    /\ \E tg \in Targets : \E k \in 0..MaxSteps :
          PlnForward(tg, k) \/ PlnBackward(tg, k)

SpecPln == InitPln /\ [][PlnNext]_vars

-----------------------------------------------------------------------------
(* An inference call running while another thread works on the store.     *)
(* plnforward and plnbackward hold no lock between two loop turns, so the  *)
(* other thread's operations fall between any two of them.                 *)

MaxExtra == 1       \* links the other thread adds to the chain store
MaxDeletes == 1     \* atoms the other thread deletes
MaxCalls == 1       \* a call starts while fewer rounds than this have begun

Running == call.pc \in {"step", "i", "j", "bstep", "bi"}

\* what the memory of a freed atom may hold: zeroes, or an atom
\* allocated since (its old contents included)
GarbageAtoms == {NewAtom(0, 0, NilName, <<>>)} \cup Range(heap)

CallForward(target, maxsteps) ==
    /\ call.pc = "idle"
    /\ call' = plnforwardEnter(World, target, maxsteps)
    /\ UNCHANGED <<ure, locks, threads, world, ecan, plnglobalstats, file, last, created, deleted, uaf>>

CallBackward(goal, maxsteps) ==
    /\ call.pc = "idle"
    /\ call' = plnbackwardEnter(World, goal, maxsteps)
    /\ UNCHANGED <<ure, locks, threads, world, ecan, plnglobalstats, file, last, created, deleted, uaf>>

\* the links the next loop turn reads through
ReadNext ==
    IF call.pc = "j" /\ call.j < Len(call.links) /\ call.i # call.j
    THEN {call.links[call.i + 1], call.links[call.j + 1]}
    ELSE IF call.pc = "bi" /\ call.i < Len(call.links)
    THEN {call.links[call.i + 1]}
    ELSE {}

CallStep ==
    /\ Running
    /\ \E g \in (IF \A p \in ReadNext : Live(World, p)
                  THEN {NewAtom(0, 0, NilName, <<>>)} ELSE GarbageAtoms) :
         \E st \in {IF call.op = "plnforward"
                    THEN ForwardStep([w |-> World, stats |-> plnglobalstats, c |-> call], g)
                    ELSE BackwardStep([w |-> World, stats |-> plnglobalstats, c |-> call], g)} :
            /\ SetWorld(st.w)
            /\ plnglobalstats' = st.stats
            /\ call' = st.c
            /\ created' = created \o NewIds(st.w)
    /\ uaf' = (uaf \/ \E p \in ReadNext : ~Live(World, p))
    /\ UNCHANGED <<ure, locks, threads, ecan, file, last, deleted>>

\* the read of freed memory faults and the process ends
CallFault ==
    /\ Running
    /\ \E p \in ReadNext : ~Live(World, p)
    /\ call' = [call EXCEPT !.pc = "fault"]
    /\ uaf' = TRUE
    /\ UNCHANGED <<ure, locks, threads, world, ecan, plnglobalstats, file, last, created, deleted>>

CallReturn ==
    /\ call.pc = "done"
    /\ last' = Returned(call)
    /\ call' = NoCall
    /\ UNCHANGED <<ure, locks, threads, world, ecan, plnglobalstats, file, created, deleted, uaf>>

InitConc ==
    InitChain({[strength |-> 922, confidence |-> 819, count |-> 10]})

ConcNext ==
    /\ call.pc # "fault"
    /\ \/ /\ plnglobalstats.forward + plnglobalstats.backward < MaxCalls
          /\ \E tg \in {0, A0} : \E k \in 0..MaxSteps :
                CallForward(tg, k) \/ CallBackward(tg, k)
       \/ CallStep
       \/ CallFault
       \/ CallReturn
       \/ /\ nextatomid <= L2 + MaxExtra
          /\ \E o \in [1..2 -> {A0, C0}] : LinkCreate(PlnStore, InheritanceLink, o)
       \/ /\ Cardinality(deleted) < MaxDeletes
          /\ \E id \in LiveSet(World, PlnStore) : AtomDelete(PlnStore, id)

\* the thread inside the call keeps being scheduled
SpecConc ==
    InitConc /\ [][ConcNext]_vars /\ WF_vars(CallStep) /\ WF_vars(CallReturn)

-----------------------------------------------------------------------------
(* Backward chaining over a store a client has added a link to *)

BackNext ==
    \/ /\ nextatomid <= L2 + MaxExtra
       /\ \E ty \in {InheritanceLink, ImplicationLink} :
            \E o \in [1..2 -> {A0, B0, C0}] : LinkCreate(PlnStore, ty, o)
    \/ /\ plnglobalstats.backward < MaxRounds
       /\ \E tg \in Targets : \E k \in 0..MaxSteps : PlnBackward(tg, k)

SpecBack == InitConc /\ [][BackNext]_vars

-----------------------------------------------------------------------------
(* atomspacemerge: serialize.c:296-360.  lock() is the Plan 9 spin lock: a  *)
(* thread that takes a Lock which is held, by any thread, itself included,  *)
(* waits until it is released.                                              *)

\* quotient of two floats, rounded to the grid
fdiv(a, b) == (a * TvOne + b \div 2) \div b

\* the revision of serialize.c:329-343
MergeTv(tvdst, tvsrc) ==
    LET wa == tvdst.confidence
        wb == tvsrc.confidence
        wtotal == wa + wb
    IN  IF wtotal > 0
        THEN [strength |-> (tvdst.strength * wa + tvsrc.strength * wb + wtotal \div 2)
                               \div wtotal,
              confidence |-> fdiv(wtotal, wtotal + TvOne),
              count |-> tvdst.count + tvsrc.count]
        ELSE [strength |-> (tvdst.strength + tvsrc.strength) \div 2,
              confidence |-> 0,
              count |-> tvdst.count + tvsrc.count]

\* the first atom of dst with a name, of the type and name of a; 0 if none
\* or if a has no name (serialize.c:314-326)
FindExisting(w, dst, a) ==
    LET hits == SelectSeq(w.atoms[dst],
                          LAMBDA p : /\ p # 0
                                     /\ w.heap[p].name # NilName
                                     /\ w.heap[p].type = w.heap[a].type
                                     /\ w.heap[p].name = w.heap[a].name)
    IN  IF w.heap[a].name = NilName \/ hits = <<>> THEN 0 ELSE hits[1]

Idle(t) == threads[t].pc = "idle"

\* atomspacemerge(dst, src) is entered
MergeCall(t, dst, src) ==
    /\ Idle(t)
    /\ threads' = [threads EXCEPT ![t] =
            [pc |-> "lockdst", n |-> threads[t].n + 1, given |-> threads[t].given,
             op |-> "atomspacemerge", dst |-> dst, src |-> src,
             i |-> 0, pre |-> World,
             again |-> /\ last.op = "atomspacemerge"
                       /\ last.dst = dst /\ last.src = src]]
    /\ UNCHANGED <<ure, world, locks, ecan, plnglobalstats, call, file, last, created,
                   deleted, uaf>>

\* the Lock the thread is about to take: lock(dst), lock(src), and the
\* lock(as) of atomalloc under atomcreate(dst, ..)
WaitsFor(t) ==
    IF threads[t].pc = "locksrc" THEN threads[t].src
    ELSE IF threads[t].pc \in {"lockdst", "alloc"} THEN threads[t].dst
    ELSE 0

\* lock(l) returns once l is free.  lock(dst) and lock(src) are kept until
\* the end of the merge; atomcreate(dst, a->type, a->name) allocates under
\* the lock and releases it (atomspace.c:201-222).
MergeLock(t) ==
    LET c == threads[t]
        a == atoms[c.src][c.i + 1]
    IN  /\ WaitsFor(t) # 0
        /\ locks[WaitsFor(t)] = 0
        /\ IF c.pc = "alloc"
           THEN /\ SetWorld(atomcreate(World, c.dst, heap[a].type, heap[a].name))
                /\ created' = Append(created, <<nextatomid, c.dst>>)
                /\ threads' = [threads EXCEPT ![t] = [c EXCEPT !.pc = "loop", !.i = @ + 1]]
                /\ UNCHANGED locks
           ELSE /\ locks' = [locks EXCEPT ![WaitsFor(t)] = t]
                /\ threads' = [threads EXCEPT ![t].pc =
                                  IF c.pc = "lockdst" THEN "locksrc" ELSE "loop"]
                /\ UNCHANGED <<world, created>>
        /\ UNCHANGED <<ure, ecan, plnglobalstats, call, file, last, deleted, uaf>>

\* one turn of for(i = 0; i < src->natoms; i++), up to the call of
\* atomcreate; after the loop unlock(src), unlock(dst), return 0
MergeLoop(t) ==
    LET c == threads[t]
        a == atoms[c.src][c.i + 1]
        existing == FindExisting(World, c.dst, a)
    IN  /\ c.pc = "loop"
        /\ IF c.i >= Len(atoms[c.src])
           THEN /\ locks' = [locks EXCEPT ![c.src] = 0, ![c.dst] = 0]
                /\ threads' = [threads EXCEPT ![t] = [pc |-> "idle", n |-> c.n, given |-> c.given]]
                /\ last' = [op |-> "atomspacemerge", ret |-> 0, dst |-> c.dst,
                            src |-> c.src, pre |-> c.pre, again |-> c.again]
                /\ UNCHANGED world
           ELSE /\ IF a # 0 /\ existing # 0
                   THEN SetWorld(atomsettruth(World, existing,
                                              MergeTv(heap[existing].tv, heap[a].tv)))
                   ELSE UNCHANGED world
                /\ threads' = [threads EXCEPT ![t] =
                       IF a # 0 /\ existing = 0 /\ Len(heap[a].outgoing) = 0
                       THEN [c EXCEPT !.pc = "alloc"]
                       ELSE [c EXCEPT !.i = @ + 1]]
                /\ UNCHANGED <<locks, last>>
        /\ UNCHANGED <<ure, ecan, plnglobalstats, call, file, created, deleted, uaf>>

MaxMerges == 2      \* calls of atomspacemerge in one run

MergeTvs == {[strength |-> 922, confidence |-> 819, count |-> 10]}

\* threads of T build the stores while no merge is running, and merge them
MergeNext(T) ==
    \/ /\ \A t \in Threads : Idle(t)
       /\ nextatomid <= MaxAtoms
       /\ \E s \in Stores : \E n \in {NilName, "A"} : AtomCreate(s, ConceptNode, n)
    \/ /\ \A t \in Threads : Idle(t)
       /\ nextatomid <= MaxAtoms
       /\ \E s \in Stores : \E o \in Outgoings(s, 1) \ {<<>>} :
            LinkCreate(s, InheritanceLink, o)
    \/ /\ \A t \in Threads : Idle(t)
       /\ \E s \in Stores : \E a \in LiveSet(World, s) : \E tv \in MergeTvs :
            heap[a].tv = DefaultTv /\ AtomSetTruth(a, tv)
    \/ \E t \in T : \E dst, src \in Stores :
          /\ dst # src
          /\ SeqSum([u \in 1..Cardinality(Threads) |-> threads[u].n]) < MaxMerges
          /\ MergeCall(t, dst, src)
    \/ \E t \in T : MergeLock(t)
    \/ \E t \in T : MergeLoop(t)

SpecMerge == Init /\ [][MergeNext(Threads)]_vars

\* one thread only
SpecMergeOne == Init /\ [][MergeNext({1})]_vars

-----------------------------------------------------------------------------
(* ecanallocate called by two threads: ecan.c:90-103.  atomgetattention    *)
(* and atomsetattention copy the struct without a lock (atomspace.c:355-   *)
(* 365), so another thread may run between the two.                        *)

MaxAllocs == 2      \* calls of ecanallocate in one run

AllocCall(t, a, sti) ==
    /\ Idle(t)
    /\ threads' = [threads EXCEPT ![t] =
            [pc |-> "read", n |-> threads[t].n + 1, given |-> threads[t].given,
             op |-> "ecanallocate", a |-> a, sti |-> sti, av |-> DefaultAv]]
    /\ UNCHANGED <<ure, world, locks, ecan, plnglobalstats, call, file, last, created,
                   deleted, uaf>>

\* av = atomgetattention(a)
AllocRead(t) ==
    /\ threads[t].pc = "read"
    /\ threads' = [threads EXCEPT ![t].pc = "write", ![t].av = heap[threads[t].a].av]
    /\ UNCHANGED <<ure, world, locks, ecan, plnglobalstats, call, file, last, created,
                   deleted, uaf>>

\* av.sti += sti; atomsetattention(a, av)
AllocWrite(t) ==
    LET c == threads[t]
    IN  /\ c.pc = "write"
        /\ SetWorld(atomsetattention(World, c.a, [c.av EXCEPT !.sti = Short(@ + c.sti)]))
        /\ threads' = [threads EXCEPT ![t].pc = "update",
                                      ![t].given = Append(@, <<c.a, c.sti>>)]
        /\ UNCHANGED <<ure, locks, ecan, plnglobalstats, call, file, last, created,
                       deleted, uaf>>

\* ecanupdate(ecan), under lock(ecan), and the return
AllocUpdate(t) ==
    LET c == threads[t]
    IN  /\ c.pc = "update"
        /\ ecan' = ecanupdate(World, ecan)
        /\ threads' = [threads EXCEPT ![t] = [pc |-> "idle", n |-> c.n, given |-> c.given]]
        /\ last' = [op |-> "ecanallocate", ret |-> 0, a |-> c.a, sti |-> c.sti,
                    thread |-> t]
        /\ UNCHANGED <<ure, world, locks, plnglobalstats, call, file, created, deleted, uaf>>

AllocNext ==
    \/ /\ \A t \in Threads : Idle(t)
       /\ nextatomid <= MaxAtoms
       /\ AtomCreate(EcanStore, ConceptNode, "A")
    \/ \E t \in Threads : \E a \in LiveSet(World, EcanStore) : \E d \in Deltas :
          /\ SeqSum([u \in 1..Cardinality(Threads) |-> threads[u].n]) < MaxAllocs
          /\ AllocCall(t, a, d)
    \/ \E t \in Threads : AllocRead(t)
    \/ \E t \in Threads : AllocWrite(t)
    \/ \E t \in Threads : AllocUpdate(t)

SpecAlloc == InitEcan /\ [][AllocNext]_vars

-----------------------------------------------------------------------------
(* atomspaceimport on streams that no export wrote *)

MaxLines == 3       \* records of a stream between the header and END

\* LINK <id> <type> <noutgoing> <outgoing ids> <tv> <av>
LinkRec(id, outs) ==
    <<Str("LINK"), Num(id), Num(InheritanceLink), Num(Len(outs))>>
    \o [j \in DOMAIN outs |-> Num(outs[j])]
    \o <<fmtf(DefaultTv.strength), fmtf(DefaultTv.confidence), Num(0),
         Num(0), Num(0), Num(0)>>

\* whole records, a NODE line cut after 9 fields and a LINK line cut
\* before its last two
ImpLines ==
    {NodeLine(NewAtom(1, ConceptNode, "A", <<>>)),
     NodeLine(NewAtom(2, ConceptNode, "B", <<>>)),
     SubSeq(NodeLine(NewAtom(2, ConceptNode, "B", <<>>)), 1, 9),
     LinkRec(3, <<1>>),
     LinkRec(4, <<1, 2>>),
     SubSeq(LinkRec(4, <<1, 2>>), 1, 10)}

Headers == {<<Str("ATOMSPACE"), Num(0)>>, <<Str("ATOMSPACF"), Num(0)>>}

Streams ==
    {<<h>> \o body \o << <<Str("END")>> >> :
        h \in Headers, body \in UNION {[1..n -> ImpLines] : n \in 0..MaxLines}}

InitImp ==
    /\ InitWorld
    /\ ecan = ecaninit(DefaultFocus)
    /\ plnglobalstats = ZeroStats
    /\ call = NoCall
    /\ locks = NoLocks
    /\ threads = NoThreads
    /\ ure = ureinit
    /\ file \in Streams
    /\ last = [op |-> "init", ret |-> 0]
    /\ created = <<>>
    /\ deleted = {}
    /\ uaf = FALSE

ImpNext == Import

SpecImp == InitImp /\ [][ImpNext]_vars

-----------------------------------------------------------------------------
(* Pattern matching: pattern.c:9-63 *)

\* struct Pattern (atomspace.h:81-87); type 0 is unset, name NilName is nil
Pat(wildcard, type, name, outgoing) ==
    [wildcard |-> wildcard, type |-> type, name |-> name, outgoing |-> outgoing]

\* patternmatchatom(a, pat), a read through pointer p: the atom, or what g
\* says the memory holds once p is freed
RECURSIVE patternmatchatom(_, _, _, _)
patternmatchatom(w, p, pat, g) ==
    LET a == Deref(w, p, g)
    IN  IF pat.wildcard THEN TRUE
        ELSE IF pat.type # 0 /\ a.type # pat.type THEN FALSE
        ELSE IF pat.name # NilName /\ a.name # NilName /\ a.name # pat.name THEN FALSE
        ELSE IF Len(pat.outgoing) # Len(a.outgoing) THEN FALSE
        ELSE \A i \in 1..Len(pat.outgoing) :
                 patternmatchatom(w, a.outgoing[i], pat.outgoing[i], g)

\* the non-nil entries of as->atoms that match, in array order
atommatch(w, s, pat, g) ==
    SelectSeq(LiveSeq(w, s), LAMBDA p : patternmatchatom(w, p, pat, g))

NodePats ==
    {Pat(TRUE, 0, NilName, <<>>)} \cup
    {Pat(FALSE, ty, n, <<>>) : ty \in {0, ConceptNode, InheritanceLink}, n \in {NilName, "A"}}

\* patterns of depth 0 and 1
Patterns ==
    NodePats \cup {Pat(FALSE, ty, NilName, <<sub>>) :
                      ty \in {0, InheritanceLink}, sub \in NodePats}

AtomMatch(pat) ==
    /\ \E g \in (IF Dangling(World, 1) = {} THEN {NewAtom(0, 0, NilName, <<>>)}
                  ELSE GarbageAtoms) :
          last' = [op |-> "atommatch", pat |-> pat, ret |-> atommatch(World, 1, pat, g)]
    /\ uaf' = (uaf \/ \E p \in LiveSet(World, 1) :
                         /\ Len(pat.outgoing) = 1
                         /\ ~pat.outgoing[1].wildcard
                         /\ Len(heap[p].outgoing) = 1
                         /\ ~Live(World, heap[p].outgoing[1]))
    /\ UNCHANGED <<ure, locks, threads, world, ecan, plnglobalstats, call, file, created,
                   deleted>>

MatchNext ==
    \/ nextatomid <= MaxAtoms /\ \E n \in {"A", "B"} : AtomCreate(1, ConceptNode, n)
    \/ /\ nextatomid <= MaxAtoms
       /\ \E o \in Outgoings(1, 1) \ {<<>>} : LinkCreate(1, InheritanceLink, o)
    \/ \E id \in LiveSet(World, 1) : AtomDelete(1, id)
    \/ \E pat \in Patterns : AtomMatch(pat)

SpecMatch == Init /\ [][MatchNext]_vars

-----------------------------------------------------------------------------
(* Claims on the id counter and the id index *)

CreatedIn(s) == {c[1] : c \in {x \in Range(created) : x[2] = s}}

\* C1: the ids returned by atomcreate and linkcreate, on one store or on
\* several and interleaved with atomdelete, are strictly increasing in
\* creation order (hence pairwise distinct), and an id released by atomdelete
\* is never assigned again.
C1_IdsIncrease ==
    /\ \A i, j \in DOMAIN created : i < j => created[i][1] < created[j][1]
    /\ \A d \in deleted : Cardinality({i \in DOMAIN created : created[i][1] = d}) = 1
    /\ \A d \in deleted : d < nextatomid

\* an atom was created, on the second store used, after an atomdelete succeeded
C1_Witness ==
    /\ last.op \in {"atomcreate", "linkcreate"}
    /\ deleted # {}
    /\ Len(created) = 3
    /\ CreatedIn(1) # {} /\ CreatedIn(2) # {}

\* C2: on one store, atomfind(as, id) returns the atom with that id if and
\* only if it was created in as and not deleted since, and atomdelete of one
\* id leaves the result of atomfind unchanged for every other id.
C2_FindIffLive ==
    /\ \A id \in 0..nextatomid :
          atomfind(World, 1, id) =
              IF id \in CreatedIn(1) \ deleted THEN id ELSE 0
    /\ \A id \in 0..nextatomid : \A other \in (0..nextatomid) \ {id} :
          atomfind(atomdelete(World, 1, id).w, 1, other) = atomfind(World, 1, other)

\* an atom was deleted while two others of the store stay live
C2_Witness ==
    /\ last.op = "atomdelete" /\ last.ret = 0
    /\ \E d \in deleted : atomfind(World, 1, d) = 0
    /\ Cardinality({id \in CreatedIn(1) : atomfind(World, 1, id) = id}) = 2

\* C4: with two stores in one process, atomfind(B, id) never returns an atom
\* that was created in the other store.
C4_StoresIsolated ==
    \A s \in Stores : \A id \in 0..nextatomid :
        atomfind(World, s, id) # 0 => atomfind(World, s, id) \in CreatedIn(s)

\* C5: atomdelete(as, id) returns -1 when id is not a live atom of as, and
\* then changes nothing: the atom arrays, the id index and the atoms of every
\* store are as before the call.
C5_DeleteMissChangesNothing ==
    \A s \in Stores : \A id \in 0..nextatomid :
        /\ (id \notin CreatedIn(s) \ deleted) => atomdelete(World, s, id).ret = -1
        /\ atomdelete(World, s, id).ret = -1 => atomdelete(World, s, id).w = World

-----------------------------------------------------------------------------
(* Claims on deletion under links and on serialization *)

LinkLines(text) == {i \in DOMAIN text : IsWord(text[i][1], "LINK")}

\* C3: after atomdelete removed an atom that a link still lists, the link
\* survives and a later traversal of it (here atomspaceexport) treats the
\* entry as absent (writes id 0) and never reads a field of the deleted atom.
C3_DeletedEntryAbsent ==
    /\ ~uaf
    /\ \A a \in LiveSet(World, 1) : a \in DOMAIN heap /\ ~heap[a].freed
    /\ \A i \in LinkLines(file) : \A j \in 1..atoi(file[i][4]) :
          atoi(file[i][4 + j]) \notin deleted

\* f maps every live atom of store s to a live atom of store s2 with equal
\* type, name, truth value and attention value, and outgoing set mapped by f
Counterparts(w, s, s2, f) ==
    \A a \in LiveSet(w, s) :
        /\ w.heap[f[a]].type = w.heap[a].type
        /\ w.heap[f[a]].name = w.heap[a].name
        /\ w.heap[f[a]].tv = w.heap[a].tv
        /\ w.heap[f[a]].av = w.heap[a].av
        /\ Len(w.heap[f[a]].outgoing) = Len(w.heap[a].outgoing)
        /\ \A j \in DOMAIN w.heap[a].outgoing :
              w.heap[f[a]].outgoing[j] =
                  IF Live(w, w.heap[a].outgoing[j]) THEN f[w.heap[a].outgoing[j]] ELSE 0

RoundTrip(w, s, s2) ==
    /\ s2 \in DOMAIN w.atoms
    /\ Cardinality(LiveSet(w, s2)) = Cardinality(LiveSet(w, s))
    /\ \E f \in [LiveSet(w, s) -> LiveSet(w, s2)] :
          /\ \A a, b \in LiveSet(w, s) : a # b => f[a] # f[b]
          /\ Counterparts(w, s, s2, f)

\* C6: atomspaceimport of the output of atomspaceexport yields a store with
\* the same number of live atoms, each original atom having a counterpart
\* of equal type, name, truth and attention value and corresponding outgoing
\* set, also for nodes with an absent or empty name and links of links.
C6_RoundTrip ==
    last.op = "atomspaceimport" => RoundTrip(World, 1, ImportStore)

-----------------------------------------------------------------------------
(* Claims on the attention economy *)

\* position of a live atom in as->atoms
Pos(w, s, a) == CHOOSE i \in DOMAIN w.atoms[s] : w.atoms[s][i] = a

\* a comes before b in the stable descending order by sti
Before(w, s, a, b) ==
    \/ Sti(w, a) > Sti(w, b)
    \/ Sti(w, a) = Sti(w, b) /\ Pos(w, s, a) < Pos(w, s, b)

\* C7: immediately after ecanupdate the focus list has length
\* min(attentionalfocus, number of live atoms), holds only live atoms without
\* repetition, in non-increasing sti with equal sti in store order, and no
\* atom outside it comes before an atom inside it in that order.
C7_FocusIsSortedPrefix ==
    last.op \in {"ecanupdate", "ecanallocate"} =>
        LET f == ecan.focusatoms
            live == LiveSet(World, EcanStore)
        IN  /\ ecan.nfocus = Len(f)
            /\ Len(f) = Min(ecan.attentionalfocus, Cardinality(live))
            /\ \A i \in DOMAIN f : f[i] \in live /\ ~heap[f[i]].freed
            /\ \A i, j \in DOMAIN f : i < j => f[i] # f[j]
            /\ \A i, j \in DOMAIN f : i < j => Sti(World, f[i]) >= Sti(World, f[j])
            /\ \A i, j \in DOMAIN f : i < j => Before(World, EcanStore, f[i], f[j])
            /\ \A a \in live \ Range(f) : \A i \in DOMAIN f :
                  Before(World, EcanStore, f[i], a)

\* ecanupdate truncated the list, with distinct sti inside the list and a
\* tie across its end
C7_Witness ==
    /\ last.op = "ecanupdate"
    /\ ecan.nfocus = FocusSmall
    /\ Cardinality(LiveSet(World, EcanStore)) > ecan.nfocus
    /\ Sti(World, ecan.focusatoms[1]) > Sti(World, ecan.focusatoms[ecan.nfocus])
    /\ \E a \in LiveSet(World, EcanStore) \ Range(ecan.focusatoms) :
          Sti(World, a) = Sti(World, ecan.focusatoms[ecan.nfocus])

-----------------------------------------------------------------------------
(* Claims on forward and backward chaining *)

\* C8: on the store whose only inheritance links are L1 = A->B and
\* L2 = B->C, plnforward(pln, A, k) with k >= 1 returns exactly one new atom,
\* an InheritanceLink with outgoing (A, C) and truth (s1*s2, c1*c2), and
\* adds exactly one atom to the store.
C8_ChainDerivesOneLink ==
    (/\ last.op = "plnforward"
     /\ last.target = A0
     /\ last.maxsteps >= 1
     /\ last.links = <<L1, L2>>)
    => /\ Len(last.ret) = 1
       /\ Len(atoms[PlnStore]) = last.natoms0 + 1
       /\ last.ret[1] = atoms[PlnStore][last.natoms0 + 1]
       /\ heap[last.ret[1]].type = InheritanceLink
       /\ heap[last.ret[1]].outgoing = <<A0, C0>>
       /\ heap[last.ret[1]].tv.strength = fmul(heap[L1].tv.strength, heap[L2].tv.strength)
       /\ heap[last.ret[1]].tv.confidence =
              fmul(heap[L1].tv.confidence, heap[L2].tv.confidence)

SameLink(a, b) ==
    /\ heap[a].type = heap[b].type
    /\ heap[a].outgoing = heap[b].outgoing

\* C9: plnforward never inserts a link with the same type and the same
\* ordered outgoing atoms as a link already in the store, so no atom it
\* returns has a duplicate in the store, in one call or over repeated calls.
C9_ForwardInsertsNoDuplicate ==
    last.op = "plnforward" =>
        \A r \in Range(last.ret) : \A b \in LiveSet(World, PlnStore) \ {r} :
            ~SameLink(r, b)

-----------------------------------------------------------------------------
(* Claim on the bounds of the inference loops *)

\* the loop conditions a call tests at most: per round one of the step
\* loop and, over nlinks links, those of the loops inside it; one more to
\* leave the step loop
TurnBound(c) ==
    LET n == Len(c.links)
    IN  IF c.op = "plnforward"
        THEN c.maxsteps * (1 + (n + 1) * (n + 1)) + 1
        ELSE c.maxsteps * (n + 2) + 1

WithinBounds(c) ==
    /\ c.rounds <= c.maxsteps
    /\ Len(c.results) <= 2 * c.maxsteps
    /\ ~c.over
    /\ c.iters <= TurnBound(c)
    /\ c.maxsteps = 0 => c.results = <<>>

\* C10: plnforward and plnbackward always terminate: while another thread
\* adds and deletes atoms of the store, a call begins at most max_steps
\* rounds, holds at most 2*max_steps results, never writes results[] at or
\* beyond that capacity, tests a bounded number of loop conditions and
\* always leaves its loops (by its return, or by the fault of a read
\* through a link deleted under it); what it returns is within the same
\* bounds and is empty when max_steps = 0.
C10_InferenceTerminates ==
    /\ [](call.pc \notin {"idle"} => WithinBounds(call))
    /\ [](last.op \in {"plnforward", "plnbackward"} =>
            /\ last.rounds <= last.maxsteps
            /\ Len(last.ret) <= 2 * last.maxsteps
            /\ last.maxsteps = 0 => last.ret = <<>>)
    /\ (Running ~> ~Running)

\* a call that read a link the other thread had deleted from under it
\* and left its loops with results[] full
C10_Witness ==
    /\ call.pc = "done"
    /\ uaf
    /\ call.maxsteps > 0
    /\ Len(call.results) = call.maxresults

-----------------------------------------------------------------------------
(* Claim on what backward chaining returns *)

\* outgoing[0] of the live links of the two types that conclude to goal
PremisesOf(goal) ==
    {heap[l].outgoing[1] :
        l \in {p \in LiveSet(World, PlnStore) :
                  /\ heap[p].type \in {InheritanceLink, ImplicationLink}
                  /\ Len(heap[p].outgoing) >= 2
                  /\ heap[p].outgoing[2] = goal}}

\* C11: plnbackward(pln, goal, k) with k >= 1 returns outgoing[0] of every
\* InheritanceLink or ImplicationLink of the store whose outgoing[1] is
\* goal, with k >= 2 also outgoing[0] of the links that conclude to those
\* premises, and nothing else.
C11_BackwardFindsPremises ==
    (last.op = "plnbackward" /\ last.target # 0 /\ last.maxsteps >= 1) =>
        LET first == PremisesOf(last.target)
            second == UNION {PremisesOf(q) : q \in first}
        IN  /\ first \subseteq Range(last.ret)
            /\ last.maxsteps >= 2 => second \subseteq Range(last.ret)
            /\ Range(last.ret) \subseteq first \cup second

-----------------------------------------------------------------------------
(* Claims on atomspacemerge *)

SameKind(w, p, v, q) ==
    w.heap[p].type = v.heap[q].type /\ w.heap[p].name = v.heap[q].name

\* b, an atom of dst, is a copy of a: type, name and truth value of a, and
\* outgoing entries that are the atoms of dst of the kind of a's
CopyOf(b, a, dst) ==
    /\ SameKind(World, b, World, a)
    /\ heap[b].tv = heap[a].tv
    /\ Len(heap[b].outgoing) = Len(heap[a].outgoing)
    /\ \A k \in 1..Len(heap[a].outgoing) :
          /\ heap[b].outgoing[k] \in LiveSet(World, dst)
          /\ Live(World, heap[a].outgoing[k]) =>
                SameKind(World, heap[b].outgoing[k], World, heap[a].outgoing[k])

\* C12: when atomspacemerge(dst, src) has returned, every live atom of src
\* that had no atom of its type and name in dst before the merge has a copy
\* in dst, links included.
C12_MergeCopiesMissing ==
    last.op = "atomspacemerge" =>
        \A a \in LiveSet(World, last.src) :
            (\A p \in LiveSet(last.pre, last.dst) : ~SameKind(last.pre, p, World, a))
            => \E b \in LiveSet(World, last.dst) : CopyOf(b, a, last.dst)

\* C13: a second atomspacemerge(dst, src), called when the first has
\* returned and nothing was done since, leaves the atoms of dst and their
\* truth values as they were when it was called.
C13_MergeIdempotent ==
    (last.op = "atomspacemerge" /\ last.again) =>
        /\ atoms[last.dst] = last.pre.atoms[last.dst]
        /\ \A p \in LiveSet(World, last.dst) : heap[p].tv = last.pre.heap[p].tv

\* C14: a thread inside atomspacemerge(dst, src), dst # src, never waits
\* for a Lock it holds itself.
C14_MergeNeverWaitsForOwnLock ==
    \A t \in Threads : WaitsFor(t) # 0 => locks[WaitsFor(t)] # t

\* C15: no two threads each wait for a Lock the other holds.
C15_NoLockCycle ==
    \A t, u \in Threads :
        ~(/\ t # u
          /\ WaitsFor(t) # 0 /\ locks[WaitsFor(t)] = u
          /\ WaitsFor(u) # 0 /\ locks[WaitsFor(u)] = t)

-----------------------------------------------------------------------------
(* Claims on ecanallocate and ecanspread *)

\* p is as it was before the last operation, but for its sti
SameButSti(p) ==
    /\ heap[p].tv = last.pre.heap[p].tv
    /\ heap[p].av.lti = last.pre.heap[p].av.lti
    /\ heap[p].av.vlti = last.pre.heap[p].av.vlti

\* C19: ecanallocate(ecan, a, d) sets the sti of a to its previous value
\* plus d, negative results included, and leaves lti and vlti of a, the
\* truth and attention values of every other atom and the set of atoms as
\* they were.
C19_AllocateAddsToOneAtom ==
    last.op = "ecanallocate" =>
        /\ Sti(World, last.a) = Sti(last.pre, last.a) + last.sti
        /\ SameButSti(last.a)
        /\ \A p \in DOMAIN heap \ {last.a} : heap[p] = last.pre.heap[p]
        /\ atoms = last.pre.atoms
        /\ nextatomid = last.pre.nextatomid
        /\ globalhash = last.pre.globalhash

\* a second allocation of -1 to an atom at -1, beside an atom that holds
\* attention of its own
C19_Witness ==
    /\ last.op = "ecanallocate"
    /\ last.sti = -1
    /\ Sti(World, last.a) = -2
    /\ \E p \in LiveSet(World, EcanStore) \ {last.a} : Sti(World, p) > 0

\* C20: ecanspread(ecan, source) changes nothing when source.sti <= 0;
\* otherwise, with n live links listing source, the sti of each of them
\* grows by source.sti div (n + 1), once, and the sti of the source and of
\* every other atom stays.
C20_SpreadSharesEqually ==
    last.op = "ecanspread" =>
        LET src == last.source
            in == {p \in LiveSet(last.pre, EcanStore) :
                       src \in Range(last.pre.heap[p].outgoing)}
            share == IF Sti(last.pre, src) <= 0 THEN 0
                     ELSE Sti(last.pre, src) \div (Cardinality(in) + 1)
        IN  /\ \A p \in in : Sti(World, p) = Sti(last.pre, p) + share
            /\ \A p \in DOMAIN heap \ in : Sti(World, p) = Sti(last.pre, p)
            /\ \A p \in DOMAIN heap : SameButSti(p)
            /\ atoms = last.pre.atoms

\* a spread that raised the sti of a link
C20_Witness ==
    /\ last.op = "ecanspread"
    /\ Sti(last.pre, last.source) > 0
    /\ \E p \in LiveSet(World, EcanStore) :
          /\ last.source \in Range(heap[p].outgoing)
          /\ Sti(World, p) > Sti(last.pre, p)

-----------------------------------------------------------------------------
(* Claim on concurrent allocations *)

\* the sum of the sti the threads have allocated to atom a
GivenTo(a) ==
    SeqSum([u \in 1..Cardinality(Threads) |->
               SeqSum([k \in 1..Len(threads[u].given) |->
                          IF threads[u].given[k][1] = a
                          THEN threads[u].given[k][2] ELSE 0])])

\* C16: when no thread is inside ecanallocate, the sti of every atom is
\* its initial sti, 0, plus every delta allocated to it: no update of one
\* thread is lost to another.
C16_NoLostAllocation ==
    (\A t \in Threads : Idle(t)) =>
        \A a \in LiveSet(World, EcanStore) : Sti(World, a) = GivenTo(a)

-----------------------------------------------------------------------------
(* Claims on streams read by atomspaceimport *)

\* the lines of the stream after the header and before END
RECURSIVE UntilEnd(_)
UntilEnd(lines) ==
    IF lines = <<>> \/ Head(lines) = <<Str("END")>> THEN <<>>
    ELSE <<Head(lines)>> \o UntilEnd(Tail(lines))

IsNode(line) == Len(line) >= 1 /\ IsWord(line[1], "NODE")

IsLink(line) == Len(line) >= 1 /\ IsWord(line[1], "LINK")

\* a NODE line of fewer than 10 fields, or a LINK line of fewer fields
\* than its outgoing count asks for
Truncated(line) ==
    \/ IsNode(line) /\ Len(tokenize(line)) < 10
    \/ IsLink(line) /\ (Len(line) < 4 \/ Len(tokenize(line)) < 4 + atoi(line[4]) + 6)

WholeRecords(lines) ==
    SelectSeq(lines, LAMBDA l : (IsNode(l) \/ IsLink(l)) /\ ~Truncated(l))

\* the lines before the first truncated one
RECURSIVE UntilTruncated(_)
UntilTruncated(lines) ==
    IF lines = <<>> \/ Truncated(Head(lines)) THEN <<>>
    ELSE <<Head(lines)>> \o UntilTruncated(Tail(lines))

\* C17: in the store atomspaceimport returns, no outgoing entry of a link
\* is nil when the id the LINK line gives for it is the id of a whole
\* record of the stream, before or after the LINK line.
C17_ImportResolvesForwardIds ==
    (last.op = "atomspaceimport" /\ last.ret # 0) =>
        LET recs == WholeRecords(UntilEnd(Tail(file)))
            ids == {atoi(recs[k][2]) : k \in DOMAIN recs}
        IN  \A k \in DOMAIN recs :
                IsLink(recs[k]) =>
                    \A j \in 1..atoi(recs[k][4]) :
                        atoi(recs[k][4 + j]) \in ids =>
                            heap[atoms[last.ret][k]].outgoing[j] # 0

\* C18: atomspaceimport returns no store when the header is malformed,
\* and after a good header it imports the records before the first
\* truncated record and none after it.
C18_ImportStopsAtTruncation ==
    last.op = "atomspaceimport" =>
        IF ~HeaderOk(file)
        THEN last.ret = 0 /\ ImportStore \notin DOMAIN atoms
        ELSE /\ last.ret = ImportStore
             /\ Len(atoms[ImportStore]) =
                    Len(WholeRecords(UntilTruncated(UntilEnd(Tail(file)))))

-----------------------------------------------------------------------------
(* Claims on ecandecay *)

\* x * (den - num) / den cut toward zero
DecayOf(x, r) ==
    IF x < 0 THEN -(((-x) * (r.den - r.num)) \div r.den)
    ELSE (x * (r.den - r.num)) \div r.den

\* C21: ecandecay(ecan, r) sets the sti of every live atom to sti * (1 - r)
\* cut toward zero (100 and 0.1 give 90), leaves lti, vlti and the truth
\* values, and the focus list it leaves is the one ecanupdate computes from
\* the values after the decay.
C21_DecayScalesSti ==
    last.op = "ecandecay" =>
        /\ \A p \in LiveSet(World, EcanStore) :
              /\ Sti(World, p) = DecayOf(Sti(last.pre, p), last.rate)
              /\ SameButSti(p)
        /\ ecan = ecanupdate(World, ecan)

Abs(x) == IF x < 0 THEN -x ELSE x

\* C22: after ecandecay with 0 < r < 1 the sti of every atom has the sign
\* it had or is 0, and is not larger in absolute value.
C22_DecayNeverGrows ==
    (last.op = "ecandecay" /\ 0 < last.rate.num /\ last.rate.num < last.rate.den) =>
        \A p \in LiveSet(World, EcanStore) :
            /\ Sti(World, p) * Sti(last.pre, p) >= 0
            /\ Sti(last.pre, p) = 0 => Sti(World, p) = 0
            /\ Abs(Sti(World, p)) <= Abs(Sti(last.pre, p))

\* a decay that shrank a negative and a positive sti
C22_Witness ==
    /\ last.op = "ecandecay"
    /\ 0 < last.rate.num /\ last.rate.num < last.rate.den
    /\ \E p, q \in LiveSet(World, EcanStore) :
          /\ Sti(last.pre, p) < Sti(World, p) /\ Sti(World, p) < 0
          /\ Sti(last.pre, q) > Sti(World, q) /\ Sti(World, q) > 0

-----------------------------------------------------------------------------
(* Claim on atommatch *)

\* the recursive definition, on the atoms of the store: an outgoing entry
\* whose atom was deleted matches the wildcard only
RECURSIVE Matches(_, _)
Matches(p, pat) ==
    \/ pat.wildcard
    \/ /\ Live(World, p)
       /\ pat.type = 0 \/ pat.type = heap[p].type
       /\ (pat.name # NilName /\ heap[p].name # NilName) => heap[p].name = pat.name
       /\ Len(pat.outgoing) = Len(heap[p].outgoing)
       /\ \A i \in 1..Len(pat.outgoing) : Matches(heap[p].outgoing[i], pat.outgoing[i])

\* C23: atommatch returns, in store order, exactly the live atoms that
\* satisfy the recursive definition of a match.
C23_MatchIsTheDefinition ==
    last.op = "atommatch" =>
        last.ret = SelectSeq(LiveSeq(World, 1), LAMBDA p : Matches(p, last.pat))

\* ---------------------------------------------------------------------------
\* Unified rule engine (libpln/ure.c)
\* ---------------------------------------------------------------------------

MaxRules == 2
MaxUreAtoms == 7

\* a PlnRule as a client fills it in: weight in whole units, formula nil
Rule(weight, premises, conclusion) ==
    [weight |-> weight, premises |-> premises, conclusion |-> conclusion]

\* plnaddrule: the rule is appended to pln->rules
plnaddrule(u, rule) == [u EXCEPT !.rules = Append(@, rule)]

\* uregetrules: the rules of ure->pln
uregetrules(u) == u.rules

\* urerulepriority: weight / (1.0 + complexity), as an exact fraction
\* (complexity is held in tenths)
urerulepriority(rule, complexity) ==
    [num |-> rule.weight * 10, den |-> 10 + complexity]

Greater(p, q) == p.num * q.den > q.num * p.den

NoGarbage == NewAtom(0, 0, NilName, <<>>)

\* urematchpremises: found[0] of atommatch for every premise that has a match;
\* ok when every premise had one and there is at least one premise
urematchpremises(w, rule) ==
    LET found == [i \in 1..Len(rule.premises) |->
                     atommatch(w, PlnStore, rule.premises[i], NoGarbage)]
        hit == SelectSeq([i \in 1..Len(rule.premises) |-> i],
                         LAMBDA i : Len(found[i]) > 0)
        matches == [k \in 1..Len(hit) |-> found[hit[k]][1]]
    IN  IF Len(rule.premises) = 0 THEN [ok |-> FALSE, matches |-> <<>>]
        ELSE [ok |-> Len(matches) = Len(rule.premises), matches |-> matches]

\* ureapplyrule: [w, ret]; the conclusion is created as a link over the
\* premises or as a node, its truth value the deduction of the first two
ureapplyrule(w, rule, premises) ==
    LET w1 == IF Len(rule.conclusion.outgoing) > 0 /\ Len(premises) >= 2
              THEN linkcreate(w, PlnStore, rule.conclusion.type, premises)
              ELSE atomcreate(w, PlnStore, rule.conclusion.type, rule.conclusion.name)
        result == Newest(w1, PlnStore)
        w2 == IF Len(premises) >= 2
              THEN atomsettruth(w1, result,
                                plndeduction(w.heap[premises[1]].tv, w.heap[premises[2]].tv))
              ELSE w1
    IN  [w |-> w2, ret |-> result]

\* the rule selection loop of urechain from rule i on: the index of the best
\* rule, 0 for none
RECURSIVE SelectRule(_, _, _, _, _)
SelectRule(w, u, i, bestpriority, bestrule) ==
    IF i > Len(u.rules) THEN bestrule
    ELSE LET priority == urerulepriority(u.rules[i], u.complexity)
         IN  IF Greater(priority, bestpriority) /\ urematchpremises(w, u.rules[i]).ok
             THEN SelectRule(w, u, i + 1, priority, i)
             ELSE SelectRule(w, u, i + 1, bestpriority, bestrule)

ComplexityKeep(c) == c

\* ure->complexity += 0.1, in tenths
ComplexityStep(c) == c + 1

UreCapacityHalf(maxiter) == maxiter

\* maxresults
UreCapacity(maxiter) == maxiter * 2

\* results[count++] for every atom of forward while count < maxresults
CopyResults(results, forward, maxresults) ==
    SubSeq(results \o forward, 1, Min(Len(results) + Len(forward), maxresults))

\* the rules whose premises all match in w
Matching(w, u) == {i \in 1..Len(u.rules) : urematchpremises(w, u.rules[i]).ok}

\* the iterations of urechain with rules; log keeps, per iteration, the
\* store it started from, the rule applied (0: none) and the atom created
RECURSIVE UreLoop(_, _)
UreLoop(st, target) ==
    IF ~(st.iter < st.u.maxiter /\ Len(st.results) < UreCapacity(st.u.maxiter)) THEN st
    ELSE LET bestrule == SelectRule(st.w, st.u, 1, [num |-> 0, den |-> 1], 0)
             entry == [pre |-> st.w, complexity |-> st.u.complexity,
                       rule |-> bestrule, newatom |-> 0]
         IN  IF bestrule > 0
             THEN LET ap == ureapplyrule(st.w, st.u.rules[bestrule],
                                         urematchpremises(st.w, st.u.rules[bestrule]).matches)
                      st1 == [st EXCEPT !.w = ap.w,
                                        !.results = Append(@, ap.ret),
                                        !.log = Append(@, [entry EXCEPT !.newatom = ap.ret])]
                  IN  IF target # 0 /\ ap.ret = target THEN st1
                      ELSE UreLoop([st1 EXCEPT !.iter = @ + 1,
                                               !.u.complexity = ComplexityStep(@)],
                                   target)
             ELSE LET f == plnforward(st.w, st.stats, target, 1)
                  IN  [st EXCEPT !.w = f.w, !.stats = f.stats,
                                 !.results = CopyResults(@, f.c.results,
                                                         UreCapacity(st.u.maxiter)),
                                 !.log = Append(@, entry)]

\* urechain(ure, target): [w, stats, u, results, log]
urechain(w, stats, u, target) ==
    IF Len(uregetrules(u)) = 0
    THEN LET f == plnforward(w, stats, target, u.maxiter)
         IN  [w |-> f.w, stats |-> f.stats, u |-> u, iter |-> 0, log |-> <<>>,
              results |-> CopyResults(<<>>, f.c.results, UreCapacity(u.maxiter))]
    ELSE UreLoop([w |-> w, stats |-> stats, u |-> u, iter |-> 0, log |-> <<>>,
                  results |-> <<>>], target)

PlnAddRule(rule) ==
    /\ Len(ure.rules) < MaxRules
    /\ ure' = plnaddrule(ure, rule)
    /\ last' = [op |-> "plnaddrule", ret |-> 0]
    /\ UNCHANGED <<locks, threads, world, ecan, plnglobalstats, call, file, created,
                   deleted, uaf>>

UreChain(target) ==
    /\ nextatomid <= MaxUreAtoms
    /\ plnglobalstats.forward < MaxSteps
    /\ \E st \in {urechain(World, plnglobalstats, ure, target)} :
           /\ SetWorld(st.w)
           /\ plnglobalstats' = st.stats
           /\ ure' = st.u
           /\ last' = [op |-> "urechain", ret |-> st.results, target |-> target,
                       pre |-> World, prestats |-> plnglobalstats, preure |-> ure,
                       log |-> st.log]
           /\ created' = created \o NewIds(st.w)
    /\ UNCHANGED <<locks, threads, ecan, call, file, deleted, uaf>>

\* rules over the chain store: a node conclusion named like C, a link
\* conclusion over two premises, and a rule whose premise matches nothing
NodeRule(weight) ==
    Rule(weight, <<Pat(FALSE, ConceptNode, "A", <<>>)>>,
         Pat(FALSE, ConceptNode, "C", <<>>))

LinkRule(weight) ==
    Rule(weight, <<Pat(FALSE, ConceptNode, "A", <<>>), Pat(FALSE, ConceptNode, "C", <<>>)>>,
         Pat(FALSE, InheritanceLink, NilName,
             <<Pat(TRUE, 0, NilName, <<>>), Pat(TRUE, 0, NilName, <<>>)>>))

NeverRule(weight) ==
    Rule(weight, <<Pat(FALSE, ConceptNode, "Z", <<>>)>>, Pat(FALSE, ConceptNode, "Z", <<>>))

UreRules == {NodeRule(0), NodeRule(1), NodeRule(2), LinkRule(1), NeverRule(3)}

\* the chain store, and the chain closed to a ring by a link C->A
UreWorld(tv, ring) ==
    IF ring
    THEN atomsettruth(linkcreate(ChainWorld(tv, tv), PlnStore, InheritanceLink, <<C0, A0>>),
                      L2 + 1, tv)
    ELSE ChainWorld(tv, tv)

InitUre ==
    /\ \E tv \in {t \in ChainTvs : t.confidence = TvOne}, ring \in BOOLEAN :
          /\ nextatomid = UreWorld(tv, ring).nextatomid
          /\ globalhash = UreWorld(tv, ring).globalhash
          /\ atoms = UreWorld(tv, ring).atoms
          /\ heap = UreWorld(tv, ring).heap
          /\ created = [i \in 1..(UreWorld(tv, ring).nextatomid - 1) |-> <<i, PlnStore>>]
    /\ \E m \in 0..MaxSteps : ure = [ureinit EXCEPT !.maxiter = m]
    /\ ecan = ecaninit(DefaultFocus)
    /\ plnglobalstats = ZeroStats
    /\ call = NoCall
    /\ locks = NoLocks
    /\ threads = NoThreads
    /\ file = <<>>
    /\ last = [op |-> "init", ret |-> 0]
    /\ deleted = {}
    /\ uaf = FALSE

UreNext ==
    \/ \E rule \in UreRules : PlnAddRule(rule)
    \/ \E target \in {0, A0, C0} : UreChain(target)

SpecUre == InitUre /\ [][UreNext]_vars

\* C24: with no rule registered, urechain returns what plnforward returns
\* for ure->maxiter steps, leaves the store as plnforward leaves it, and
\* does not change the complexity.
C24_NoRulesIsForward ==
    (last.op = "urechain" /\ Len(last.preure.rules) = 0) =>
        LET f == plnforward(last.pre, last.prestats, last.target, last.preure.maxiter)
        IN  /\ last.ret = f.c.results
            /\ World = f.w
            /\ plnglobalstats = f.stats
            /\ ure = last.preure

C24_Witness ==
    /\ last.op = "urechain"
    /\ Len(last.preure.rules) = 0
    /\ Len(last.ret) > last.preure.maxiter

\* C25: in every iteration of urechain with rules, when some rule has all
\* its premises matching, a rule is applied, and it is a matching rule of
\* the highest priority weight / (1 + complexity).
C25_BestMatchingRuleApplied ==
    (last.op = "urechain" /\ Len(last.preure.rules) > 0) =>
        \A k \in 1..Len(last.log) :
            LET e == last.log[k]
                u == [last.preure EXCEPT !.complexity = e.complexity]
            IN  Matching(e.pre, u) # {} =>
                    /\ e.rule \in Matching(e.pre, u)
                    /\ \A i \in Matching(e.pre, u) :
                           ~Greater(urerulepriority(u.rules[i], e.complexity),
                                    urerulepriority(u.rules[e.rule], e.complexity))

\* the atom has the target's type, name and outgoing
IsTarget(a, target) ==
    /\ heap[a].type = heap[target].type
    /\ heap[a].name = heap[target].name
    /\ heap[a].outgoing = heap[target].outgoing

\* C26: once urechain has produced the target, it applies no further rule
\* and creates no further atom.
C26_StopsAtTarget ==
    (last.op = "urechain" /\ last.target # 0) =>
        \A k \in 1..Len(last.log) :
            (last.log[k].newatom # 0 /\ IsTarget(last.log[k].newatom, last.target)) =>
                /\ k = Len(last.log)
                /\ nextatomid = last.log[k].newatom + 1

\* ---------------------------------------------------------------------------
\* Inference statistics (libpln/pln.c)
\* ---------------------------------------------------------------------------

\* plnstats: *stats = plnglobalstats
plnstats(stats) == stats

\* plnresetstats: memset(&plnglobalstats, 0, sizeof(PlnStats))
plnresetstats == ZeroStats

PlnStats ==
    /\ last' = [op |-> "plnstats", ret |-> plnstats(plnglobalstats)]
    /\ UNCHANGED <<ure, locks, threads, world, ecan, plnglobalstats, call, file, created,
                   deleted, uaf>>

PlnResetStats ==
    /\ plnglobalstats' = plnresetstats
    /\ last' = [op |-> "plnresetstats", ret |-> 0]
    /\ UNCHANGED <<ure, locks, threads, world, ecan, call, file, created, deleted, uaf>>

StatsNext ==
    \/ /\ plnglobalstats.forward + plnglobalstats.backward < MaxRounds
       /\ nextatomid <= MaxUreAtoms
       /\ \E tg \in Targets : \E k \in 0..MaxSteps : PlnForward(tg, k)
    \/ /\ plnglobalstats.forward + plnglobalstats.backward < MaxRounds
       /\ \E tg \in Targets : \E k \in 0..MaxSteps : PlnBackward(tg, k)
    \/ PlnStats
    \/ PlnResetStats

SpecStats == InitPln /\ [][StatsNext]_vars

\* C27: plnstats reports five zeros after plnresetstats; a plnforward of r
\* rounds that returns n links adds r to forward and n to inferences,
\* rulematch and tvcompute; a plnbackward of r rounds that returns n
\* premises adds r to backward and n to inferences, and nothing else.
C27_StatsCountCalls ==
    LET s == plnstats(plnglobalstats)
        n == Len(last.ret)
    IN  /\ last.op = "plnresetstats" =>
               /\ s.forward = 0 /\ s.backward = 0 /\ s.inferences = 0
               /\ s.rulematch = 0 /\ s.tvcompute = 0
        /\ last.op = "plnforward" =>
               /\ s.forward = last.stats0.forward + last.rounds
               /\ s.inferences = last.stats0.inferences + n
               /\ s.rulematch = last.stats0.rulematch + n
               /\ s.tvcompute = last.stats0.tvcompute + n
               /\ s.backward = last.stats0.backward
        /\ last.op = "plnbackward" =>
               /\ s.backward = last.stats0.backward + last.rounds
               /\ s.inferences = last.stats0.inferences + n
               /\ s.forward = last.stats0.forward
               /\ s.rulematch = last.stats0.rulematch
               /\ s.tvcompute = last.stats0.tvcompute

\* a forward call of two rounds that returned links, counted from zero
C27_Witness ==
    /\ last.op = "plnforward"
    /\ last.stats0 = ZeroStats
    /\ last.rounds = 2
    /\ Len(last.ret) >= 2
    /\ plnglobalstats.tvcompute = Len(last.ret)

\* ---------------------------------------------------------------------------
\* Attention through the inference engine (libpln/ure.c)
\* ---------------------------------------------------------------------------

\* plnallocattention: av.sti += amount; atomsetattention(a, av)
plnallocattention(w, a, amount) ==
    atomsetattention(w, a, [w.heap[a].av EXCEPT !.sti = Short(@ + amount)])

\* for(i = 0; i < nincoming; i++) plnallocattention(pln, incoming[i], spread)
RECURSIVE PlnSpreadTo(_, _, _)
PlnSpreadTo(w, incoming, spread) ==
    IF incoming = <<>> THEN w
    ELSE PlnSpreadTo(plnallocattention(w, Head(incoming), spread), Tail(incoming), spread)

\* plnspreadattention(pln, source)
plnspreadattention(w, source) ==
    LET incoming == atomgetincoming(w, PlnStore, source)
    IN  IF Sti(w, source) <= 0 \/ incoming = <<>> THEN w
        ELSE PlnSpreadTo(w, incoming, SpreadShare(Sti(w, source), Len(incoming)))

PlnAllocAttention(a, amount) ==
    /\ Sti(World, a) + amount \in -MaxSti..MaxSti
    /\ SetWorld(plnallocattention(World, a, amount))
    /\ last' = [op |-> "plnallocattention", ret |-> 0, a |-> a, sti |-> amount,
                pre |-> World, preecan |-> ecan]
    /\ UNCHANGED <<ure, locks, threads, ecan, plnglobalstats, call, file, created, deleted,
                   uaf>>

PlnSpreadAttention(source) ==
    /\ \E w \in {plnspreadattention(World, source)} :
          /\ \A p \in LiveSet(World, PlnStore) : Sti(w, p) \in -MaxSti..MaxSti
          /\ SetWorld(w)
    /\ last' = [op |-> "plnspreadattention", ret |-> 0, source |-> source,
                pre |-> World, preecan |-> ecan]
    /\ UNCHANGED <<ure, locks, threads, ecan, plnglobalstats, call, file, created, deleted,
                   uaf>>

\* an attention network and an inference engine over the same store
PlnAttNext ==
    \/ nextatomid <= MaxAtoms /\ AtomCreate(EcanStore, ConceptNode, "A")
    \/ /\ nextatomid <= MaxAtoms
       /\ \E o \in Outgoings(EcanStore, 1) \ {<<>>} :
            LinkCreate(EcanStore, InheritanceLink, o)
    \/ EcanUpdate
    \/ \E a \in LiveSet(World, PlnStore) : \E d \in Deltas : PlnAllocAttention(a, d)
    \/ \E a \in LiveSet(World, PlnStore) : PlnSpreadAttention(a)

SpecPlnAtt == InitEcan /\ [][PlnAttNext]_vars

\* C28: plnallocattention and plnspreadattention leave the store and the
\* focus list of an attention network over it as ecanallocate and
\* ecanspread would: the same attention values, the focus list recomputed.
C28_PlnAttentionIsEcan ==
    /\ last.op = "plnallocattention" =>
           LET r == ecanallocate(last.pre, last.preecan, last.a, last.sti)
           IN  World = r.w /\ ecan = r.e
    /\ last.op = "plnspreadattention" =>
           LET r == ecanspread(last.pre, last.preecan, last.source)
           IN  World = r.w /\ ecan = r.e

\* ---------------------------------------------------------------------------
\* Revision (libpln/pln.c) and the revision of atomspacemerge
\* ---------------------------------------------------------------------------

\* a revision whose confidence is the product of the two confidences
plnrevisionProduct(a, b) ==
    LET wa == a.confidence
        wb == b.confidence
        wtotal == wa + wb
    IN  IF wtotal > 0
        THEN [strength |-> (a.strength * wa + b.strength * wb + wtotal \div 2) \div wtotal,
              confidence |-> fmul(wa, wb),
              count |-> a.count + b.count]
        ELSE [strength |-> TvOne \div 2, confidence |-> 0, count |-> a.count + b.count]

\* plnrevision(a, b), quotients rounded to the nearest grid value
plnrevision(a, b) ==
    LET wa == a.confidence
        wb == b.confidence
        wtotal == wa + wb
    IN  IF wtotal > 0
        THEN [strength |-> (a.strength * wa + b.strength * wb + wtotal \div 2) \div wtotal,
              confidence |-> fdiv(wtotal, wtotal + TvOne),
              count |-> a.count + b.count]
        ELSE [strength |-> TvOne \div 2, confidence |-> 0, count |-> a.count + b.count]

\* truth values of the two atoms named "A" that a merge brings together
ReviseTvs ==
    {[strength |-> s, confidence |-> c, count |-> 10] : s \in {307, 922}, c \in {0, 819}}

\* store 1 and store 2 each hold a ConceptNode "A"
ReviseWorld(tv1, tv2) ==
    LET w0 == [nextatomid |-> 1, globalhash |-> hashinit,
               atoms |-> [s \in Stores |-> <<>>], heap |-> <<>>]
        w1 == atomcreate(w0, 1, ConceptNode, "A")
        w2 == atomcreate(w1, 2, ConceptNode, "A")
    IN  atomsettruth(atomsettruth(w2, 1, tv1), 2, tv2)

InitRevise ==
    /\ \E tv1, tv2 \in ReviseTvs :
          /\ nextatomid = ReviseWorld(tv1, tv2).nextatomid
          /\ globalhash = ReviseWorld(tv1, tv2).globalhash
          /\ atoms = ReviseWorld(tv1, tv2).atoms
          /\ heap = ReviseWorld(tv1, tv2).heap
    /\ InitRest
    /\ ecan = ecaninit(DefaultFocus)

SpecRevise == InitRevise /\ [][MergeNext({1})]_vars

\* the atoms of src that the merge revises e with
RevisedWith(e) ==
    {a \in LiveSet(last.pre, last.src) : FindExisting(last.pre, last.dst, a) = e}

\* C29: an atom of dst that atomspacemerge matched with an atom of src
\* holds plnrevision(dst truth, src truth) afterwards, in strength,
\* confidence and count.
C29_MergeUsesRevision ==
    (last.op = "atomspacemerge" /\ \A t \in Threads : Idle(t)) =>
        \A e \in LiveSet(last.pre, last.dst) : \A a \in RevisedWith(e) :
            Cardinality(RevisedWith(e)) = 1 =>
                heap[e].tv = plnrevision(last.pre.heap[e].tv, last.pre.heap[a].tv)

\* plnrevision as a function of its two arguments
RevisionTvs ==
    {[strength |-> s, confidence |-> c, count |-> 10] :
        s \in {0, 307, 819, TvOne}, c \in {0, 102, 410, 512, 819, TvOne}}

PlnRevision(a, b) ==
    /\ last' = [op |-> "plnrevision", a |-> a, b |-> b, ret |-> plnrevision(a, b)]
    /\ UNCHANGED <<ure, locks, threads, world, ecan, plnglobalstats, call, file, created,
                   deleted, uaf>>

RevisionNext == \E a, b \in RevisionTvs : PlnRevision(a, b)

SpecRevision == Init /\ [][RevisionNext]_vars

\* C30: for a and b of confidence in (0, 1] the confidence of
\* plnrevision(a, b) is not lower than the confidence of a nor of b, and
\* plnrevision(a, a) has the strength of a for every a.
C30_RevisionGainsConfidence ==
    last.op = "plnrevision" =>
        /\ (last.a.confidence > 0 /\ last.b.confidence > 0) =>
               /\ last.ret.confidence >= last.a.confidence
               /\ last.ret.confidence >= last.b.confidence
        /\ last.a = last.b => last.ret.strength = last.a.strength

\* C30 as amended: for a and b of confidence in (0, 1] the confidence of
\* plnrevision(a, b) is above zero, and not lower than the smaller of the
\* two confidences when that one is at most one half; plnrevision(a, a) has
\* the strength of a for every a of non-zero confidence.
C30_RevisionConfidenceBound ==
    last.op = "plnrevision" =>
        /\ (last.a.confidence > 0 /\ last.b.confidence > 0) =>
               /\ last.ret.confidence > 0
               /\ Min(last.a.confidence, last.b.confidence) <= TvOne \div 2 =>
                      last.ret.confidence >= Min(last.a.confidence, last.b.confidence)
        /\ (last.a = last.b /\ last.a.confidence > 0) =>
               last.ret.strength = last.a.strength

C30_Witness ==
    /\ last.op = "plnrevision"
    /\ last.a = last.b
    /\ last.a.confidence = TvOne \div 2
    /\ last.a.strength = 819
    /\ last.ret.confidence = last.a.confidence

\* ---------------------------------------------------------------------------
\* The truth-value formulas (libpln/pln.c)
\* ---------------------------------------------------------------------------

\* the denominator of plninduction, k = 1.0
InductionDen(ab, ba) ==
    fmul(ab.strength, ba.strength) + fmul(TvOne - ab.strength, TvOne - ba.strength)

\* plninduction. A zero denominator is the float division 0.0 / 0.0: the
\* strength is not a number (written -1), or the process takes a
\* floating-point trap
plninduction(ab, ba) ==
    [strength |-> IF InductionDen(ab, ba) = 0 THEN -1
                  ELSE fdiv(fmul(ab.strength, ba.strength), InductionDen(ab, ba)),
     confidence |-> fmul(fmul(ab.confidence, ba.confidence), (9 * TvOne) \div 10),
     count |-> ab.count]

plnabduction(ab, bc) ==
    [strength |-> fmul(fmul(ab.strength, bc.strength), (8 * TvOne) \div 10),
     confidence |-> fmul(fmul(ab.confidence, bc.confidence), (7 * TvOne) \div 10),
     count |-> ab.count + bc.count]

plnand(a, b) ==
    [strength |-> fmul(a.strength, b.strength),
     confidence |-> fmul(a.confidence, b.confidence),
     count |-> a.count + b.count]

plnor(a, b) ==
    [strength |-> a.strength + b.strength - fmul(a.strength, b.strength),
     confidence |-> (a.confidence + b.confidence) \div 2,
     count |-> a.count + b.count]

plnnot(a) ==
    [strength |-> TvOne - a.strength, confidence |-> a.confidence, count |-> a.count]

FormulaNames ==
    {"plndeduction", "plninduction", "plnabduction", "plnrevision", "plnand", "plnor",
     "plnnot"}

\* the call f(a, b); plnnot takes a only
ApplyFormula(f, a, b) ==
    CASE f = "plndeduction" -> plndeduction(a, b)
      [] f = "plninduction" -> plninduction(a, b)
      [] f = "plnabduction" -> plnabduction(a, b)
      [] f = "plnrevision" -> plnrevision(a, b)
      [] f = "plnand" -> plnand(a, b)
      [] f = "plnor" -> plnor(a, b)
      [] f = "plnnot" -> plnnot(a)

\* the outcome "trap" is the process dying in the division
PlnFormula(f, a, b) ==
    /\ \E outcome \in (IF f = "plninduction" /\ InductionDen(a, b) = 0
                       THEN {"nan", "trap"} ELSE {"value"}) :
          last' = [op |-> "formula", f |-> f, a |-> a, b |-> b, outcome |-> outcome,
                   ret |-> ApplyFormula(f, a, b)]
    /\ UNCHANGED <<ure, locks, threads, world, ecan, plnglobalstats, call, file, created,
                   deleted, uaf>>

FormulaTvs ==
    {[strength |-> s, confidence |-> c, count |-> n] :
        s \in {0, 307, TvOne}, c \in {0, 512, TvOne}, n \in {0, 10}}

FormulaNext == \E f \in FormulaNames : \E a, b \in FormulaTvs : PlnFormula(f, a, b)

SpecFormula == Init /\ [][FormulaNext]_vars

InUnit(x) == x \in 0..TvOne

\* C31: every formula returns, for strengths and confidences of [0,1], a
\* defined result with strength and confidence in [0,1] whose count is the
\* sum of the input counts (the input count for plnnot).
C31_FormulasStayInUnit ==
    last.op = "formula" =>
        /\ last.outcome = "value"
        /\ InUnit(last.ret.strength)
        /\ InUnit(last.ret.confidence)
        /\ last.ret.count = IF last.f = "plnnot" THEN last.a.count
                            ELSE last.a.count + last.b.count

\* the links plnforward pairs: the inheritance links the store held when
\* the call began
PremiseLinks ==
    {p \in LiveSet(last.pre, PlnStore) :
        /\ last.pre.heap[p].type = InheritanceLink
        /\ Len(last.pre.heap[p].outgoing) >= 2}

\* r is the deduction of I and J
DeducedFrom(r, I, J) ==
    /\ I # J
    /\ last.pre.heap[I].outgoing[2] = last.pre.heap[J].outgoing[1]
    /\ heap[r].outgoing = <<last.pre.heap[I].outgoing[1], last.pre.heap[J].outgoing[2]>>
    /\ last.target # 0 =>
           (I = last.target \/ last.target \in Range(last.pre.heap[I].outgoing))
    /\ heap[r].tv = plndeduction(last.pre.heap[I].tv, last.pre.heap[J].tv)

D0 == 6
L3 == 7

FourWorld(tv) ==
    LET w1 == atomcreate(ChainWorld(tv, tv), PlnStore, ConceptNode, "D")
        w2 == linkcreate(w1, PlnStore, InheritanceLink, <<C0, D0>>)
    IN  atomsettruth(w2, L3, tv)

InitFour ==
    /\ \E tv \in ChainTvs :
          /\ nextatomid = FourWorld(tv).nextatomid
          /\ globalhash = FourWorld(tv).globalhash
          /\ atoms = FourWorld(tv).atoms
          /\ heap = FourWorld(tv).heap
    /\ created = [i \in 1..L3 |-> <<i, PlnStore>>]
    /\ ecan = ecaninit(DefaultFocus)
    /\ plnglobalstats = ZeroStats
    /\ call = NoCall
    /\ locks = NoLocks
    /\ threads = NoThreads
    /\ ure = ureinit
    /\ file = <<>>
    /\ last = [op |-> "init", ret |-> 0]
    /\ deleted = {}
    /\ uaf = FALSE

FourNext ==
    /\ plnglobalstats.forward < MaxRounds
    /\ nextatomid <= L3 + 1 + MaxExtra
    /\ \E tg \in {0, A0, D0} : \E k \in 0..MaxSteps : PlnForward(tg, k)

SpecFour == InitFour /\ [][FourNext]_vars

\* C33: on the store A->B, B->C, C->D, plnforward with target A and
\* max_steps >= 2 returns a link A->D: the links of an earlier round are
\* premises of the later rounds of the same call.
C33_ForwardUsesDerivedLinks ==
    (/\ last.op = "plnforward"
     /\ last.target = A0
     /\ last.maxsteps >= 2
     /\ last.pre.nextatomid = L3 + 1) =>
        \E k \in 1..Len(last.ret) : heap[last.ret[k]].outgoing = <<A0, D0>>

\* plnforward one loop test at a time, with no other thread
StepNext ==
    \/ /\ plnglobalstats.forward < MaxRounds
       /\ \E tg \in Targets : \E k \in 0..MaxSteps : CallForward(tg, k)
    \/ CallStep
    \/ CallReturn

SpecStep == InitConc /\ [][StepNext]_vars

Penalised ==
    {k \in 1..Len(last.log) :
        /\ last.log[k].rule > 0
        /\ ~(last.target # 0 /\ last.log[k].newatom = last.target)}

UreBounded ==
    last.op = "urechain" =>
        /\ Len(last.log) <= last.preure.maxiter
        /\ plnglobalstats.forward - last.prestats.forward <= last.preure.maxiter
        /\ Len(last.ret) <= 2 * last.preure.maxiter
        /\ ure.complexity = last.preure.complexity + Cardinality(Penalised)

\* C35: urechain ends within maxiter iterations and returns at most
\* 2 * maxiter atoms; the complexity never decreases, and a call adds 0.1
\* to it for every iteration that selected a rule and did not end the call.
C35_ChainBoundedComplexityGrows ==
    [][ure'.complexity >= ure.complexity /\ UreBounded']_vars

\* two iterations applied a rule and the complexity went up by 0.2
C35_Witness ==
    /\ last.op = "urechain"
    /\ Len(last.log) = 2
    /\ Cardinality(Penalised) = 2
    /\ ure.complexity = last.preure.complexity + 2

\* ---------------------------------------------------------------------------
\* A pattern with an arity and no sub-pattern array (test_pattern_match_link)
\* ---------------------------------------------------------------------------

\* pat.wildcard = 0, pat.name = nil, pat.outgoing = nil, pat.noutgoing = n
PatNoSub(type, n) == [wildcard |-> FALSE, type |-> type, name |-> NilName, noutgoing |-> n]

\* the atoms that pass the tests of type, name and arity (pattern.c:17-25)
PassesHead(w, s, pat) ==
    SelectSeq(LiveSeq(w, s),
              LAMBDA p : /\ (pat.type = 0 \/ w.heap[p].type = pat.type)
                         /\ Len(w.heap[p].outgoing) = pat.noutgoing)

\* atommatch with such a pattern. For an atom that passes the head tests
\* and has n > 0 the loop reads pat->outgoing[i] through the nil pointer:
\* the process faults, or the word read is taken for a sub-pattern and the
\* atom matches or not
MatchNoSub(w, s, pat) ==
    IF pat.noutgoing = 0 \/ PassesHead(w, s, pat) = <<>>
    THEN {[outcome |-> "value", ret |-> PassesHead(w, s, pat)]}
    ELSE {[outcome |-> "fault", ret |-> <<>>]} \cup
         {[outcome |-> "value",
           ret |-> SelectSeq(PassesHead(w, s, pat), LAMBDA p : p \in S)] :
              S \in SUBSET Range(PassesHead(w, s, pat))}

AtomMatchNoSub(type, n) ==
    /\ \E r \in MatchNoSub(World, 1, PatNoSub(type, n)) :
          last' = [op |-> "atommatch", pat |-> PatNoSub(type, n),
                   outcome |-> r.outcome, ret |-> r.ret]
    /\ UNCHANGED <<ure, locks, threads, world, ecan, plnglobalstats, call, file, created,
                   deleted, uaf>>

AritySteps ==
    \/ nextatomid <= MaxAtoms /\ \E n \in {"A", "B"} : AtomCreate(1, ConceptNode, n)
    \/ /\ nextatomid <= MaxAtoms
       /\ \E ty \in {InheritanceLink, ListLink} : \E o \in Outgoings(1, 2) \ {<<>>} :
             LinkCreate(1, ty, o)
    \/ \E ty \in {InheritanceLink, ListLink} : \E n \in 0..2 : AtomMatchNoSub(ty, n)

SpecArity == Init /\ [][AritySteps]_vars

\* C36: a pattern that gives a link type, no name, an arity n > 0 and no
\* sub-pattern array matches every live link of the type with exactly n
\* outgoing atoms, and atommatch returns them without an error.
C36_ArityPatternMatchesLinks ==
    (last.op = "atommatch" /\ last.pat.noutgoing > 0) =>
        /\ last.outcome = "value"
        /\ last.ret = PassesHead(World, 1, last.pat)

\* ---------------------------------------------------------------------------
\* ecanupdate and ecandecay beside a thread that changes the store
\* ---------------------------------------------------------------------------

Scanner == 1

\* ecanupdate(ecan) or ecandecay(ecan, 0.5) is entered
ScanCall(op) ==
    /\ Idle(Scanner)
    /\ threads[Scanner].n < MaxCalls
    /\ threads' = [threads EXCEPT ![Scanner] =
            [pc |-> "lock", n |-> @.n + 1, given |-> @.given, op |-> op,
             i |-> 0, sorted |-> <<>>]]
    /\ UNCHANGED <<ure, world, locks, ecan, plnglobalstats, call, file, last, created,
                   deleted, uaf>>

\* lock(ecan): the Lock of the network, not the Lock of ecan->as
ScanLock ==
    /\ threads[Scanner].pc = "lock"
    /\ locks[EcanLock] = 0
    /\ locks' = [locks EXCEPT ![EcanLock] = Scanner]
    /\ threads' = [threads EXCEPT ![Scanner].pc = "scan"]
    /\ UNCHANGED <<ure, world, ecan, plnglobalstats, call, file, last, created, deleted,
                   uaf>>

\* one turn of for(i = 0; i < ecan->as->natoms; i++): a = ecan->as->atoms[i].
\* ecanupdate keeps a in sorted[], ecandecay scales its sti; at the end of
\* the loop ecandecay unlocks and calls ecanupdate
ScanStep ==
    LET c == threads[Scanner]
        a == atoms[EcanStore][c.i + 1]
    IN  /\ c.pc = "scan"
        /\ IF c.i < Len(atoms[EcanStore])
           THEN /\ threads' = [threads EXCEPT ![Scanner] =
                       [c EXCEPT !.i = @ + 1,
                                 !.sorted = IF a # 0 /\ c.op = "ecanupdate"
                                            THEN Append(@, a) ELSE @]]
                /\ IF a # 0 /\ c.op = "ecandecay"
                   THEN SetWorld([World EXCEPT !.heap[a].av.sti =
                                     MulTrunc(@, DecayFactor(RateOne \div 2))])
                   ELSE UNCHANGED world
                /\ UNCHANGED locks
           ELSE IF c.op = "ecandecay"
           THEN /\ threads' = [threads EXCEPT ![Scanner] =
                       [c EXCEPT !.pc = "lock", !.op = "ecanupdate", !.i = 0]]
                /\ locks' = [locks EXCEPT ![EcanLock] = 0]
                /\ UNCHANGED world
           ELSE /\ threads' = [threads EXCEPT ![Scanner].pc = "sort"]
                /\ UNCHANGED <<world, locks>>
        /\ UNCHANGED <<ure, ecan, plnglobalstats, call, file, last, created, deleted, uaf>>

\* the bubble sort reads sorted[j]->av.sti and the focus list is replaced.
\* An atom freed since the scan is read after free: the process faults, or
\* the sort runs on what the memory still holds
ScanSort ==
    LET c == threads[Scanner]
        stale == \E k \in 1..Len(c.sorted) : ~Live(World, c.sorted[k])
        sorted == BubbleSort(World, c.sorted, 0)
        nfocus == Min(Len(sorted), ecan.attentionalfocus)
    IN  /\ c.pc = "sort"
        /\ uaf' = (uaf \/ stale)
        /\ \/ /\ stale
              /\ threads' = [threads EXCEPT ![Scanner].pc = "fault"]
              /\ UNCHANGED <<ecan, locks, last>>
           \/ /\ ecan' = [ecan EXCEPT !.nfocus = nfocus,
                                      !.focusatoms = SubSeq(sorted, 1, nfocus)]
              /\ locks' = [locks EXCEPT ![EcanLock] = 0]
              /\ threads' = [threads EXCEPT ![Scanner] =
                      [pc |-> "idle", n |-> c.n, given |-> c.given]]
              /\ last' = [op |-> "ecanupdate", ret |-> 0]
        /\ UNCHANGED <<ure, world, plnglobalstats, call, file, created, deleted>>

\* the other thread creates and deletes atoms and sets attention values,
\* each under lock(as) where the code takes it
ScanNext ==
    \/ nextatomid <= MaxAtoms /\ AtomCreate(EcanStore, ConceptNode, "A")
    \/ \E id \in LiveSet(World, EcanStore) : AtomDelete(EcanStore, id)
    \/ \E a \in LiveSet(World, EcanStore) :
          /\ Sti(World, a) = 0
          /\ \E s \in {1, MaxSti} : AtomSetAttention(a, [heap[a].av EXCEPT !.sti = s])
    \/ \E op \in {"ecanupdate", "ecandecay"} : ScanCall(op)
    \/ ScanLock
    \/ ScanStep
    \/ ScanSort

SpecScan == InitEcan /\ [][ScanNext]_vars

\* C37: ecanupdate and ecandecay scan the atom array of the store only
\* while they hold the Lock of that store, and so never meet an atom that
\* atomdelete has freed under them.
C37_ScanHoldsStoreLock ==
    /\ threads[Scanner].pc \in {"scan", "sort"} => locks[EcanStore] = Scanner
    /\ ~uaf

\* ---------------------------------------------------------------------------
\* The focus list a client reads (ecan.c:133-143)
\* ---------------------------------------------------------------------------

\* ecanfocus: *n = ecan->nfocus; return ecan->focusatoms
ecanfocus(e) == SubSeq(e.focusatoms, 1, e.nfocus)

EcanFocus ==
    /\ last' = [op |-> "ecanfocus", ret |-> ecanfocus(ecan)]
    /\ UNCHANGED <<ure, locks, threads, world, ecan, plnglobalstats, call, file, created,
                   deleted, uaf>>

FocusNext ==
    \/ SpreadNext
    \/ EcanDecay([num |-> 1, den |-> 2])
    \/ EcanFocus

SpecFocus == InitEcan /\ [][FocusNext]_vars

\* C38: every entry of the list ecanfocus returns is a live atom of the
\* store, never an atom that has been deleted.
C38_FocusListsLiveAtoms ==
    last.op = "ecanfocus" =>
        \A k \in 1..Len(last.ret) :
            /\ Live(World, last.ret[k])
            /\ last.ret[k] \in LiveSet(World, EcanStore)

\* ---------------------------------------------------------------------------
\* atomcreate by two threads, each in its own store (atomspace.c:191-250)
\* ---------------------------------------------------------------------------
\* Each thread holds the Lock of its own AtomSpace only, so the statements
\* of the two atomalloc calls on the statics nextatomid and globalhash
\* interleave.  Here a pointer is the number of the malloc that returned it
\* and differs from the id of the atom; a chain of globalhash lists the
\* e->atom of its entries, head first, and e->id is the id of that atom.

MaxCreates == 2     \* calls of atomcreate by one thread

\* the store the thread creates its atoms in
StoreOf(t) == t

\* atomcreate(as, ConceptNode, name) is entered: a = mallocz(sizeof(Atom), 1);
\* lock(as)
CreateCall(t) ==
    /\ Idle(t)
    /\ threads[t].n < MaxCreates
    /\ locks[StoreOf(t)] = 0
    /\ \E a \in {Cardinality(DOMAIN heap) + 1} :
        /\ heap' = heap @@ (a :> NewAtom(0, 0, NilName, <<>>))
        /\ threads' = [threads EXCEPT ![t] =
                [pc |-> "readid", n |-> threads[t].n + 1,
                 given |-> threads[t].given, op |-> "atomcreate", a |-> a,
                 id |-> 0, head |-> <<>>]]
    /\ locks' = [locks EXCEPT ![StoreOf(t)] = t]
    /\ UNCHANGED <<nextatomid, globalhash, atoms, ecan, plnglobalstats, call,
                   file, last, created, deleted, uaf, ure>>

\* a->id = nextatomid++: the load of nextatomid
CreateReadId(t) ==
    /\ threads[t].pc = "readid"
    /\ threads' = [threads EXCEPT ![t].pc = "writeid", ![t].id = nextatomid]
    /\ UNCHANGED <<world, ecan, plnglobalstats, call, file, last, created,
                   deleted, uaf, locks, ure>>

\* a->id = nextatomid++: the stores; as->atoms[as->natoms++] = a
CreateWriteId(t) ==
    /\ threads[t].pc = "writeid"
    /\ nextatomid' = threads[t].id + 1
    /\ heap' = [heap EXCEPT ![threads[t].a].id = threads[t].id]
    /\ atoms' = [atoms EXCEPT ![StoreOf(t)] = Append(@, threads[t].a)]
    /\ threads' = [threads EXCEPT ![t].pc = "readbucket"]
    /\ UNCHANGED <<globalhash, ecan, plnglobalstats, call, file, last, created,
                   deleted, uaf, locks, ure>>

\* hashinsert: e->next = h->buckets[bucket]
CreateReadBucket(t) ==
    /\ threads[t].pc = "readbucket"
    /\ threads' = [threads EXCEPT ![t].pc = "writebucket",
                       ![t].head = Chain(globalhash, hashid(threads[t].id))]
    /\ UNCHANGED <<world, ecan, plnglobalstats, call, file, last, created,
                   deleted, uaf, locks, ure>>

\* hashinsert: h->buckets[bucket] = e; unlock(as); atomcreate sets the type
\* and the name and returns the atom
CreateWriteBucket(t) ==
    /\ threads[t].pc = "writebucket"
    /\ globalhash' = SetChain(globalhash, hashid(threads[t].id),
                              <<threads[t].a>> \o threads[t].head)
    /\ heap' = [heap EXCEPT ![threads[t].a] =
                    NewAtom(@.id, ConceptNode, "A", <<>>)]
    /\ locks' = [locks EXCEPT ![StoreOf(t)] = 0]
    /\ threads' = [threads EXCEPT ![t] =
            [pc |-> "idle", n |-> threads[t].n, given |-> threads[t].given]]
    /\ last' = [op |-> "atomcreate", ret |-> threads[t].a, store |-> StoreOf(t)]
    /\ created' = Append(created, <<threads[t].a, StoreOf(t)>>)
    /\ UNCHANGED <<nextatomid, atoms, ecan, plnglobalstats, call, file,
                   deleted, uaf, ure>>

\* hashfind over chains of atoms: the first entry of the bucket whose id is
\* the id sought, or nil
RECURSIVE FirstWithId(_, _, _)
FirstWithId(w, chain, id) ==
    IF chain = <<>> THEN 0
    ELSE IF w.heap[Head(chain)].id = id THEN Head(chain)
    ELSE FirstWithId(w, Tail(chain), id)

\* atomfind: the entry of globalhash if there is one, else the linear
\* search of as->atoms
atomfindEntry(w, s, id) ==
    LET a == FirstWithId(w, Chain(w.globalhash, hashid(id)), id)
        hits == {k \in 1..Len(w.atoms[s]) :
                    w.atoms[s][k] # 0 /\ w.heap[w.atoms[s][k]].id = id}
    IN  IF a # 0 THEN a
        ELSE IF hits = {} THEN 0
        ELSE w.atoms[s][CHOOSE k \in hits : \A j \in hits : k <= j]

CreateNext ==
    \E t \in Threads :
        \/ CreateCall(t)
        \/ CreateReadId(t)
        \/ CreateWriteId(t)
        \/ CreateReadBucket(t)
        \/ CreateWriteBucket(t)

SpecCreate == Init /\ [][CreateNext]_vars

\* C39: when two threads have created atoms in two different stores, no
\* two of the atoms have the same id, and atomfind on the store of an atom,
\* given the id of the atom, returns that atom.
C39_ConcurrentCreateDistinctIds ==
    (\A t \in Threads : Idle(t)) =>
        /\ \A i, j \in 1..Len(created) :
            i # j => heap[created[i][1]].id # heap[created[j][1]].id
        /\ \A i \in 1..Len(created) :
            atomfindEntry(World, created[i][2], heap[created[i][1]].id)
                = created[i][1]

\* ---------------------------------------------------------------------------
\* linkcreate when the outgoing array cannot be allocated
\* (atomspace.c:253-290)
\* ---------------------------------------------------------------------------

\* a = atomalloc(as); a->type = type; a->noutgoing = n;
\* a->outgoing = mallocz(...) is nil: free(a); return nil
linkcreateNoMem(w, s, type) ==
    LET w1 == atomalloc(w, s)
        a == Newest(w1, s)
    IN  [w |-> [w1 EXCEPT !.heap[a].type = type, !.heap[a].freed = TRUE],
         ret |-> 0, a |-> a]

\* linkcreate(as, type, outgoing, n) with n > 0 and no memory for the array
LinkCreateNoMem(s, type, outgoing) ==
    /\ Len(outgoing) > 0
    /\ LET r == linkcreateNoMem(World, s, type)
       IN  /\ SetWorld(r.w)
           /\ last' = [op |-> "linkcreate", ret |-> r.ret, store |-> s,
                       a |-> r.a, pre |-> World]
    /\ UNCHANGED <<ure, locks, threads, rest, created, deleted, uaf>>

\* as->atoms holds a pointer to memory that has been given back
StaleSlot == \E s \in Stores : \E k \in 1..Len(atoms[s]) :
                atoms[s][k] # 0 /\ heap[atoms[s][k]].freed

\* The operations of one store, each linkcreate with or without the memory
\* for its array.  What an operation does once it reads through a dangling
\* entry of as->atoms is not followed.
NoMemNext ==
    /\ ~StaleSlot
    /\ \/ NextOne
       \/ /\ nextatomid <= MaxAtoms
          /\ \E o \in Outgoings(1, 1) : LinkCreateNoMem(1, InheritanceLink, o)

SpecNoMem == Init /\ [][NoMemNext]_vars

\* C40: when linkcreate returns nil because the outgoing array could not be
\* allocated, natoms is what it was before the call and neither as->atoms
\* nor globalhash holds the atom that was released.
C40_FailedLinkLeavesStore ==
    (last.op = "linkcreate" /\ last.ret = 0) =>
        /\ Len(atoms[last.store]) = Len(last.pre.atoms[last.store])
        /\ last.a \notin Range(atoms[last.store])
        /\ \A b \in DOMAIN globalhash : last.a \notin Range(globalhash[b])

====
